---- MODULE Spec2Model ----
(***************************************************************************)
(* Model of the greenremote-jobs ingestion pipeline: source adapters,     *)
(* the translation filter, the ingestion handlers and the jobs table.     *)
(*                                                                         *)
(* Text is a sequence of code points.  The JavaScript values null and     *)
(* undefined (an absent key) are the two reserved sequences NULL and      *)
(* ABSENT, which no text equals.                                           *)
(***************************************************************************)
EXTENDS Integers, Sequences, FiniteSets, TLC

(* ----------------------------------------------------------------------- *)
(* Bounds                                                                  *)
(* ----------------------------------------------------------------------- *)

\* longest short text drawn as an input of the translation filter
MaxLen == 3
\* number of GET /api/fetch-jobs runs
MaxRuns == 2
\* number of GET /api/fetch-jobs-extra runs
MaxExtraRuns == 1
\* number of /api/scrape-linkedin runs
MaxScrapes == 1
\* number of POST /api/translate-jobs runs
MaxBackfills == 2
\* number of POST /api/add-job requests
MaxAdds == 2
\* number of rows the admin deletes
MaxDeletes == 1
\* number of requests of all kinds
MaxRequests == 2
\* number of GET /api/fetch-jobs runs that are interrupted
MaxInterrupts == 1

(* ----------------------------------------------------------------------- *)
(* JavaScript values and strings                                           *)
(* ----------------------------------------------------------------------- *)

NULL == << -1 >>
ABSENT == << -2 >>

IsNullish(v) == v = NULL \/ v = ABSENT

\* a ?? b
Coalesce(a, b) == IF IsNullish(a) THEN b ELSE a

\* truthiness of a string-or-nullish value
Truthy(v) == ~IsNullish(v) /\ v # << >>

\* a || b
OrElse(a, b) == IF Truthy(a) THEN a ELSE b

\* the code points String.prototype.trim removes
IsWhiteSpace(c) ==
    c \in ({9, 10, 11, 12, 13, 32, 160, 5760, 8232, 8233, 8239, 8287, 12288, 65279}
             \cup (8192..8202))

RECURSIVE TrimStart(_)
TrimStart(s) ==
    IF s = << >> THEN << >>
    ELSE IF IsWhiteSpace(Head(s)) THEN TrimStart(Tail(s))
    ELSE s

RECURSIVE TrimEnd(_)
TrimEnd(s) ==
    IF s = << >> THEN << >>
    ELSE IF IsWhiteSpace(s[Len(s)]) THEN TrimEnd(SubSeq(s, 1, Len(s) - 1))
    ELSE s

\* text.trim()
Trim(s) == TrimEnd(TrimStart(s))

\* text.slice(0, n)
Slice0(s, n) == IF Len(s) > n THEN SubSeq(s, 1, n) ELSE s

\* n copies of the code point c
Repeat(c, n) == [i \in 1..n |-> c]

(* ----------------------------------------------------------------------- *)
(* Translation filter                                                      *)
(* ----------------------------------------------------------------------- *)

MAX_CHARS_PER_REQUEST == 400

\* /[äöüßàáâãäåèéêëìíîïòóôõùúûüýÿñç]/i : the listed letters and their
\* upper-case forms
Diacritics ==
    {228, 246, 252, 223, 224, 225, 226, 227, 229, 232, 233, 234, 235, 236, 237,
     238, 239, 242, 243, 244, 245, 249, 250, 251, 253, 255, 241, 231,
     196, 214, 220, 192, 193, 194, 195, 197, 200, 201, 202, 203, 204, 205,
     206, 207, 210, 211, 212, 213, 217, 218, 219, 221, 376, 209, 199}

hasNonLatinScript(text) ==
    \E i \in 1..Len(text) :
        LET code == text[i] IN
            \/ code >= 1536 /\ code <= 1791      \* Arabic
            \/ code >= 1872 /\ code <= 1919      \* Arabic Supplement
            \/ code >= 1024 /\ code <= 1279      \* Cyrillic
            \/ code >= 19968 /\ code <= 40959    \* CJK Unified Ideographs
            \/ code >= 1424 /\ code <= 1535      \* Hebrew
            \/ code >= 3584 /\ code <= 3711      \* Thai

isLikelyEnglish(text) ==
    IF text = << >> \/ Len(text) < 2 THEN TRUE
    ELSE LET t == Trim(text)
             nonAscii == Cardinality({i \in 1..Len(t) : t[i] > 127})
         IN  IF hasNonLatinScript(t) THEN FALSE
             \* nonAscii > t.length * 0.15
             ELSE IF nonAscii * 100 > Len(t) * 15 THEN FALSE
             ELSE IF \E i \in 1..Len(t) : t[i] \in Diacritics THEN FALSE
             ELSE TRUE

\* What the translation provider can answer to one request.
\*   kind "throw" : timeout, transport error or unparsable body
\*   kind "http"  : a response with res.ok, data.quotaFinished and
\*                  data.response.translatedText (ABSENT when missing)
Reply(kind, ok, quota, text) ==
    [kind |-> kind, ok |-> ok, quotaFinished |-> quota, translatedText |-> text]

ReplyThrow == Reply("throw", FALSE, FALSE, ABSENT)

\* the text an English answer carries in this model: " en " (untrimmed)
EnglishText == <<32, 101, 110, 32>>

ProviderTexts == {ABSENT, << >>, <<32>>, EnglishText}

Replies ==
    {ReplyThrow}
      \cup {Reply("http", ok, q, t) : ok \in BOOLEAN, q \in BOOLEAN, t \in ProviderTexts}

\* whether translateToEnglish(text) reaches the fetch call
NeedsRequest(text) ==
    LET trimmed == Trim(text) IN ~(trimmed = << >> \/ isLikelyEnglish(trimmed))

\* mutant: the quotaFinished flag is not looked at
translateToEnglishIgnoringQuota(text, reply) ==
    LET trimmed == Trim(text)
        translated == IF IsNullish(reply.translatedText) THEN ABSENT
                      ELSE Trim(reply.translatedText)
    IN  IF trimmed = << >> \/ isLikelyEnglish(trimmed)
        THEN [text |-> trimmed, requests |-> 0, query |-> << >>, threw |-> FALSE]
        ELSE [text |-> IF reply.kind = "throw" THEN trimmed
                       ELSE IF ~reply.ok THEN trimmed
                       ELSE IF Truthy(translated) THEN translated
                       ELSE trimmed,
              requests |-> 1,
              query |-> Slice0(trimmed, MAX_CHARS_PER_REQUEST),
              threw |-> FALSE]

\* mutant: only the empty text skips the request
translateToEnglishAlwaysAsks(text, reply) ==
    LET trimmed == Trim(text)
        translated == IF IsNullish(reply.translatedText) THEN ABSENT
                      ELSE Trim(reply.translatedText)
    IN  IF trimmed = << >>
        THEN [text |-> trimmed, requests |-> 0, query |-> << >>, threw |-> FALSE]
        ELSE [text |-> IF reply.kind = "throw" THEN trimmed
                       ELSE IF ~reply.ok THEN trimmed
                       ELSE IF reply.quotaFinished THEN trimmed
                       ELSE IF Truthy(translated) THEN translated
                       ELSE trimmed,
              requests |-> 1,
              query |-> Slice0(trimmed, MAX_CHARS_PER_REQUEST),
              threw |-> FALSE]

\* mutant: a request that throws is sent once more
translateToEnglishRetrying(text, reply) ==
    LET trimmed == Trim(text)
        translated == IF IsNullish(reply.translatedText) THEN ABSENT
                      ELSE Trim(reply.translatedText)
    IN  IF trimmed = << >> \/ isLikelyEnglish(trimmed)
        THEN [text |-> trimmed, requests |-> 0, query |-> << >>, threw |-> FALSE]
        ELSE [text |-> IF reply.kind = "throw" THEN trimmed
                       ELSE IF ~reply.ok THEN trimmed
                       ELSE IF reply.quotaFinished THEN trimmed
                       ELSE IF Truthy(translated) THEN translated
                       ELSE trimmed,
              requests |-> IF reply.kind = "throw" THEN 2 ELSE 1,
              query |-> Slice0(trimmed, MAX_CHARS_PER_REQUEST),
              threw |-> FALSE]

\* translateToEnglish(text), given the provider's reply to the request it
\* may issue: the returned text, the number of requests issued, the query
\* sent and whether the call rejected instead of returning
translateToEnglish(text, reply) ==
    LET trimmed == Trim(text)
        toTranslate == IF Len(trimmed) > MAX_CHARS_PER_REQUEST
                       THEN SubSeq(trimmed, 1, MAX_CHARS_PER_REQUEST)
                       ELSE trimmed
        translated == IF IsNullish(reply.translatedText) THEN ABSENT
                      ELSE Trim(reply.translatedText)
    IN  IF trimmed = << >> \/ isLikelyEnglish(trimmed)
        THEN [text |-> trimmed, requests |-> 0, query |-> << >>, threw |-> FALSE]
        ELSE [text |-> IF reply.kind = "throw" THEN trimmed   \* catch { return trimmed }
                       ELSE IF ~reply.ok THEN trimmed
                       ELSE IF reply.quotaFinished THEN trimmed
                       ELSE IF Truthy(translated) THEN translated
                       ELSE trimmed,
              requests |-> 1,
              query |-> toTranslate,
              threw |-> FALSE]

(* ----------------------------------------------------------------------- *)
(* Source adapters                                                         *)
(* ----------------------------------------------------------------------- *)

\* One element of a provider's JSON list.  object is FALSE for an element
\* that is not a JSON object.  Each field holds the value of the key the
\* adapter reads (ABSENT when the key is missing):
\*   url, apply_url, title (title / position / jobTitle),
\*   company (company_name / company / companyName),
\*   location (candidate_required_location / location / jobGeo),
\*   description, excerpt (jobExcerpt), category (category / tags[0]),
\*   date (publication_date / date / created_at),
\*   level (job_type / job_types[0])
RawItem(obj, url, applyUrl, title, company, location, description, excerpt, category, date, level) ==
    [object |-> obj, url |-> url, apply_url |-> applyUrl, title |-> title,
     company |-> company, location |-> location, description |-> description,
     excerpt |-> excerpt, category |-> category, date |-> date, level |-> level]

\* What a provider answers to the adapter's request: status is "ok",
\* "http_error" (non-success status) or "timeout"; isList says whether the
\* expected member of the body is an array; items are its elements.
Response(status, isList, items) == [status |-> status, isList |-> isList, items |-> items]

NormalizedJob(title, company, location, category, description, date, applyUrl, level) ==
    [title |-> title, company |-> company, location |-> location,
     category |-> category, description |-> description,
     publication_date |-> date, apply_url |-> applyUrl,
     experience_level |-> level]

S_Remote == <<82, 101, 109, 111, 116, 101>>
S_Worldwide == <<87, 111, 114, 108, 100, 119, 105, 100, 101>>

\* x != null ? String(x) : null
StringOrNull(x) == IF IsNullish(x) THEN NULL ELSE x

\* fetchJson: the body, or a thrown error
fetchJson(resp) ==
    IF resp.status = "ok"
    THEN [threw |-> FALSE, error |-> "", body |-> resp]
    ELSE [threw |-> TRUE, error |-> resp.status, body |-> resp]

\* an adapter's outcome: a thrown error or the list of normalized jobs
Returned(jobs) == [threw |-> FALSE, error |-> "", jobs |-> jobs]
Thrown(error) == [threw |-> TRUE, error |-> error, jobs |-> << >>]

MapSeq(s, F(_)) == [i \in 1..Len(s) |-> F(s[i])]

remotiveKeep(j) == j.object /\ j.url # ABSENT /\ j.title # ABSENT /\ j.company # ABSENT

remotiveMap(j) ==
    NormalizedJob(Coalesce(j.title, << >>), Coalesce(j.company, << >>),
                  Coalesce(j.location, S_Remote), StringOrNull(j.category),
                  StringOrNull(j.description), StringOrNull(j.date),
                  Coalesce(j.url, << >>), StringOrNull(j.level))

fetchRemotive(resp) ==
    LET r == fetchJson(resp)
        jobs == IF resp.isList THEN resp.items ELSE << >>
    IN  IF r.threw THEN Thrown(r.error)
        ELSE Returned(MapSeq(SelectSeq(jobs, remotiveKeep), remotiveMap))

remoteOkKeep(item) == item.object /\ item.title # ABSENT /\ item.apply_url # ABSENT

remoteOkMap(j) ==
    NormalizedJob(Coalesce(j.title, << >>), Coalesce(j.company, << >>),
                  Coalesce(j.location, S_Remote), StringOrNull(j.category),
                  StringOrNull(j.description), StringOrNull(j.date),
                  Coalesce(j.apply_url, Coalesce(j.url, << >>)), NULL)

fetchRemoteOk(resp) ==
    LET r == fetchJson(resp)
    IN  IF r.threw THEN Thrown(r.error)
        ELSE IF ~resp.isList THEN Returned(<< >>)
        ELSE Returned(MapSeq(SelectSeq(resp.items, remoteOkKeep), remoteOkMap))

arbeitNowMap(j) ==
    NormalizedJob(Coalesce(j.title, << >>), Coalesce(j.company, << >>),
                  OrElse(j.location, S_Remote), StringOrNull(j.category),
                  StringOrNull(j.description), StringOrNull(j.date),
                  Coalesce(j.url, << >>), StringOrNull(j.level))

\* the whole body is inside try { ... } catch { return [] }
fetchArbeitNow(resp) ==
    LET r == fetchJson(resp)
        list == IF resp.isList THEN resp.items ELSE << >>
    IN  IF r.threw THEN Returned(<< >>)
        ELSE Returned(MapSeq(SelectSeq(list, remotiveKeep), arbeitNowMap))

jobicyKeep(j) == j.object /\ Truthy(j.url) /\ Truthy(j.title)

\* JobicyJobRow has no category, publication_date or experience_level
jobicyMap(j) ==
    NormalizedJob(Coalesce(j.title, << >>), Coalesce(j.company, << >>),
                  Coalesce(j.location, S_Remote), ABSENT,
                  IF ~IsNullish(j.excerpt) THEN j.excerpt
                  ELSE IF ~IsNullish(j.description) THEN j.description ELSE NULL,
                  ABSENT, Coalesce(j.url, << >>), ABSENT)

fetchJobicyJobs(resp) ==
    LET jobs == IF resp.isList THEN resp.items ELSE << >>
    IN  IF resp.status # "ok" THEN Thrown(resp.status)
        ELSE Returned(MapSeq(SelectSeq(jobs, jobicyKeep), jobicyMap))

SourceNames == <<"remotive", "remoteok", "arbeitnow">>

\* the adapter fetchAllJobSources calls for each source
Adapter(source, resp) ==
    CASE source = "remotive" -> fetchRemotive(resp)
      [] source = "remoteok" -> fetchRemoteOk(resp)
      [] source = "arbeitnow" -> fetchArbeitNow(resp)
      [] source = "jobicy" -> fetchJobicyJobs(resp)

\* one step of fetchAllJobSources: .then(jobs => ...) / .catch(e => ...)
FetchJobsResult(source, resp) ==
    LET a == Adapter(source, resp)
    IN  IF a.threw
        THEN [source |-> source, count |-> 0, jobs |-> << >>, error |-> a.error]
        ELSE [source |-> source, count |-> Len(a.jobs), jobs |-> a.jobs, error |-> ""]

(* ----------------------------------------------------------------------- *)
(* Translation of job records                                              *)
(* ----------------------------------------------------------------------- *)

TextFields == {"title", "company", "location", "description"}

\* the text ensureJobEnglish hands to translateToEnglish for a field, or
\* ABSENT when it does not call translateToEnglish for that field
FieldInput(job, field) ==
    CASE field = "title" -> job.title
      [] field = "company" -> job.company
      [] field = "location" -> IF Truthy(job.location) THEN job.location ELSE ABSENT
      [] field = "description" ->
            IF Truthy(job.description) /\ Trim(job.description) # << >>
            THEN Slice0(job.description, MAX_CHARS_PER_REQUEST)
            ELSE ABSENT

\* whether translating the field issues a request to the provider
FieldRequests(job, field) ==
    LET in == FieldInput(job, field) IN in # ABSENT /\ NeedsRequest(in)

\* ensureJobEnglish(job); replies[f] is the provider's reply to the request
\* made for field f
ensureJobEnglish(job, replies) ==
    LET title == translateToEnglish(job.title, replies["title"]).text
        company == translateToEnglish(job.company, replies["company"]).text
        location == IF Truthy(job.location)
                    THEN translateToEnglish(job.location, replies["location"]).text
                    ELSE Coalesce(job.location, << >>)
        description ==
            IF Truthy(job.description) /\ Trim(job.description) # << >>
            THEN translateToEnglish(Slice0(job.description, MAX_CHARS_PER_REQUEST),
                                    replies["description"]).text
            ELSE job.description
    IN  [job EXCEPT !.title = title, !.company = company,
                    !.location = location, !.description = description]

\* mutant: the results are pushed in reverse order
ensureJobsEnglishReversed(jobs, replies) ==
    [i \in 1..Len(jobs) |->
        ensureJobEnglish(jobs[Len(jobs) + 1 - i], replies[Len(jobs) + 1 - i])]

\* ensureJobsEnglish(jobs): batches of CONCURRENCY records, results pushed
\* in input order
ensureJobsEnglish(jobs, replies) ==
    [i \in 1..Len(jobs) |-> ensureJobEnglish(jobs[i], replies[i])]

\* the replies the provider gives during an ingestion run: a failure or a
\* successful English answer
RunReplies == {ReplyThrow, Reply("http", TRUE, FALSE, EnglishText)}

\* reply assignments for one record; fields that issue no request get the
\* one reply that is never read
JobReplies(job) ==
    {f \in [TextFields -> RunReplies] :
        \A fld \in TextFields : ~FieldRequests(job, fld) => f[fld] = ReplyThrow}

RECURSIVE ReplySeqs(_)
ReplySeqs(jobs) ==
    IF jobs = << >> THEN {<< >>}
    ELSE {<<f>> \o rest : f \in JobReplies(Head(jobs)), rest \in ReplySeqs(Tail(jobs))}

(* ----------------------------------------------------------------------- *)
(* The jobs table                                                          *)
(* ----------------------------------------------------------------------- *)

JobRow(id, title, company, location, category, description, date, applyUrl, level, createdAt) ==
    [id |-> id, title |-> title, company |-> company, location |-> location,
     category |-> category, description |-> description,
     publication_date |-> date, apply_url |-> applyUrl,
     experience_level |-> level, created_at |-> createdAt]

\* an insert payload: the columns a handler sends (ABSENT: column not sent)
Payload(id, title, company, location, category, description, date, applyUrl, level, createdAt) ==
    JobRow(id, title, company, location, category, description, date, applyUrl, level, createdAt)

\* column defaults of CREATE TABLE public.jobs applied to a payload; an id
\* and a timestamp are one-element sequences
WithDefaults(p, id, at) ==
    JobRow(IF p.id = ABSENT THEN <<id>> ELSE p.id,
           IF p.title = ABSENT THEN NULL ELSE p.title,
           IF p.company = ABSENT THEN NULL ELSE p.company,
           IF p.location = ABSENT THEN << >> ELSE p.location,
           IF p.category = ABSENT THEN NULL ELSE p.category,
           IF p.description = ABSENT THEN NULL ELSE p.description,
           IF p.publication_date = ABSENT THEN NULL ELSE p.publication_date,
           IF p.apply_url = ABSENT THEN NULL ELSE p.apply_url,
           IF p.experience_level = ABSENT THEN NULL ELSE p.experience_level,
           IF p.created_at = ABSENT THEN <<at>> ELSE p.created_at)

\* NOT NULL columns
NotNullViolation(row) ==
    row.title = NULL \/ row.company = NULL \/ row.location = NULL \/ row.apply_url = NULL

\* PRIMARY KEY (id)
PrimaryKeyViolation(table, row) == \E r \in table : r.id = row.id

\* mutant: the table has no unique index on apply_url
UniqueViolationOff(table, row) == FALSE

\* CREATE UNIQUE INDEX jobs_apply_url_key ON public.jobs (apply_url)
UniqueViolation(table, row) == \E r \in table : r.apply_url = row.apply_url

\* mutant: ON CONFLICT (apply_url) DO UPDATE (ignoreDuplicates: false)
RECURSIVE UpsertRowsOverwrite(_, _, _, _, _)
UpsertRowsOverwrite(table, payloads, id, at, returned) ==
    IF payloads = << >> THEN [table |-> table, nextId |-> id, data |-> returned]
    ELSE LET p == Head(payloads)
             row == WithDefaults(p, id, at)
             old == {r \in table : r.apply_url = row.apply_url}
         IN  IF old # {}
             THEN UpsertRowsOverwrite(
                      {IF r \in old
                       THEN [r EXCEPT !.title = p.title, !.company = p.company,
                                      !.location = p.location, !.description = p.description]
                       ELSE r : r \in table},
                      Tail(payloads), id, at, returned)
             ELSE UpsertRowsOverwrite(table \cup {row}, Tail(payloads), id + 1, at,
                                      Append(returned, row.id))

\* mutant: the skipped rows are returned as well
RECURSIVE UpsertRowsReturnAll(_, _, _, _, _)
UpsertRowsReturnAll(table, payloads, id, at, returned) ==
    IF payloads = << >> THEN [table |-> table, nextId |-> id, data |-> returned]
    ELSE LET row == WithDefaults(Head(payloads), id, at)
         IN  IF \E r \in table : r.apply_url = row.apply_url
             THEN UpsertRowsReturnAll(table, Tail(payloads), id, at, Append(returned, row.id))
             ELSE UpsertRowsReturnAll(table \cup {row}, Tail(payloads), id + 1, at,
                                      Append(returned, row.id))

\* INSERT ... ON CONFLICT (apply_url) DO NOTHING RETURNING id, row by row:
\* the table after the statement and the ids it returns
RECURSIVE UpsertRows(_, _, _, _, _)
UpsertRows(table, payloads, id, at, returned) ==
    IF payloads = << >> THEN [table |-> table, nextId |-> id, data |-> returned]
    ELSE LET row == WithDefaults(Head(payloads), id, at)
         IN  IF UniqueViolation(table, row)
             THEN UpsertRows(table, Tail(payloads), id, at, returned)
             ELSE UpsertRows(table \cup {row}, Tail(payloads), id + 1, at,
                             Append(returned, row.id))

\* mutant: a plain insert of every row, without conflict handling
RECURSIVE InsertAll(_, _, _, _, _)
InsertAll(table, payloads, id, at, returned) ==
    IF payloads = << >> THEN [table |-> table, nextId |-> id, data |-> returned]
    ELSE LET row == WithDefaults(Head(payloads), id, at)
         IN  InsertAll(table \cup {row}, Tail(payloads), id + 1, at, Append(returned, row.id))

UpsertPlain(table, payloads, id, at) == InsertAll(table, payloads, id, at, << >>)

\* mutant: the statement stops after its first row
UpsertFirstRowOnly(table, payloads, id, at) ==
    UpsertRows(table, SubSeq(payloads, 1, 1), id, at, << >>)

\* supabase.from("jobs").upsert(rows, {onConflict: "apply_url",
\* ignoreDuplicates: true}).select("id")
Upsert(table, payloads, id, at) == UpsertRows(table, payloads, id, at, << >>)

(* ----------------------------------------------------------------------- *)
(* State                                                                   *)
(* ----------------------------------------------------------------------- *)

VARIABLES
    jobs,           \* the rows of public.jobs
    nextId,         \* the next generated id
    now,            \* the clock
    feed,           \* what each provider answers
    fjPc,           \* GET /api/fetch-jobs: "idle" or the call it awaits
    fjIdx,          \* the source the awaited call belongs to
    results,        \* fetchAllJobSources: results
    rows,           \* GET: rows of the upsert being awaited
    totalInserted,  \* GET: totalInserted
    summary,        \* GET: summary
    responses,      \* the responses GET /api/fetch-jobs has returned
    fjWrites,       \* sources for which the current run issued an upsert
    fjCalls,        \* outbound requests the current run has made
    interrupted,    \* per interrupted run, the responses returned before it
    lastUpsert,     \* the latest upsert statement any handler issued
    extra,          \* GET /api/fetch-jobs-extra: its locals and responses
    linkedin,       \* /api/scrape-linkedin: its locals and responses
    backfill,       \* POST /api/translate-jobs: its locals and responses
    manual,         \* POST /api/add-job and the admin's delete: their outcomes
    tIn,            \* translateToEnglish: argument
    tOut,           \* translateToEnglish: outcome
    adIn,           \* adapter: the provider's response
    adOut,          \* adapter: outcome
    enOut,          \* isLikelyEnglish: outcome for the argument tIn
    ej,             \* ensureJobsEnglish: the call's loop and its records
    gj              \* GET /api/jobs: the request, its queries and its response

storeVars == <<jobs, nextId, now>>
fjVars == <<fjPc, fjIdx, results, rows, totalInserted, summary, responses, fjWrites,
            fjCalls, interrupted>>
otherVars == <<extra, linkedin, backfill, manual>>
translateVars == <<tIn, tOut>>
adapterVars == <<adIn, adOut>>
pureVars == <<translateVars, adapterVars, enOut, ej, gj>>
vars == <<jobs, nextId, now, feed, fjPc, fjIdx, results, rows, totalInserted,
          summary, responses, fjWrites, fjCalls, interrupted, lastUpsert, extra,
          linkedin, backfill,
          manual, tIn, tOut, adIn, adOut, enOut, ej, gj>>

(* ----------------------------------------------------------------------- *)
(* Provider responses used by the ingestion runs                           *)
(* ----------------------------------------------------------------------- *)

S_u == <<117>>
S_v == <<118>>
S_w == <<119>>
S_ab == <<97, 98>>
S_xy == <<120, 121>>
S_c == <<99>>
S_k == <<107>>
S_d == <<100>>
S_l == <<108>>
\* two CJK ideographs
S_cjk == <<25307, 32856>>

Item(url, title, location) ==
    RawItem(TRUE, url, url, title, S_c, location, NULL, ABSENT, S_k, S_d, S_l)

ItemA == Item(S_u, S_ab, ABSENT)
\* the listing of ItemA with other content
ItemA2 == Item(S_u, S_xy, S_cjk)
ItemB == Item(S_v, S_cjk, << >>)
ItemBlank == Item(<<32>>, S_ab, ABSENT)
ItemNoTitle == Item(S_w, << >>, ABSENT)
\* a listing whose link is one space and whose location is the empty string
ItemBare == Item(<<32>>, S_ab, << >>)

FeedOptions ==
    {Response("timeout", FALSE, << >>),
     Response("http_error", FALSE, << >>),
     Response("ok", TRUE, <<ItemA, ItemB>>),
     Response("ok", TRUE, <<ItemA2, ItemBlank>>),
     Response("ok", TRUE, <<ItemNoTitle, ItemA, ItemA2>>)}

PrimarySources == {"remotive", "remoteok", "arbeitnow"}
AllSources == PrimarySources \cup {"jobicy", "linkedin"}

(* ----------------------------------------------------------------------- *)
(* GET /api/fetch-jobs                                                     *)
(* ----------------------------------------------------------------------- *)

Entry(source, fetched, inserted, error) ==
    [source |-> source, fetched |-> fetched, inserted |-> inserted, error |-> error]

\* jobs.filter((j) => j.apply_url?.trim())
HasApplyUrl(j) == ~IsNullish(j.apply_url) /\ Trim(j.apply_url) # << >>
Filtered(js) == SelectSeq(js, HasApplyUrl)

\* translated.map((j) => ({title, company, location: j.location || "Remote",
\* description, apply_url}))
IngestRow(j) ==
    Payload(ABSENT, j.title, j.company, OrElse(j.location, S_Remote), ABSENT,
            j.description, ABSENT, j.apply_url, ABSENT, ABSENT)

\* mutant: a failed source gets no summary entry
RECURSIVE LoopFromNoErrorEntry(_, _, _)
LoopFromNoErrorEntry(res, i, sum) ==
    IF i > Len(res) THEN [pc |-> "idle", idx |-> i, summary |-> sum]
    ELSE IF res[i].error # "" THEN LoopFromNoErrorEntry(res, i + 1, sum)
    ELSE IF Filtered(res[i].jobs) = << >>
         THEN LoopFromNoErrorEntry(res, i + 1,
                                   Append(sum, Entry(res[i].source, res[i].count, 0, "")))
    ELSE [pc |-> "translate", idx |-> i, summary |-> sum]

\* The for loop from result i up to its next await: results with an error
\* or with no record left are summarised and skipped.
RECURSIVE LoopFrom(_, _, _)
LoopFrom(res, i, sum) ==
    IF i > Len(res) THEN [pc |-> "idle", idx |-> i, summary |-> sum]
    ELSE IF res[i].error # ""
         THEN LoopFrom(res, i + 1, Append(sum, Entry(res[i].source, 0, 0, res[i].error)))
    ELSE IF Filtered(res[i].jobs) = << >>
         THEN LoopFrom(res, i + 1, Append(sum, Entry(res[i].source, res[i].count, 0, "")))
    ELSE [pc |-> "translate", idx |-> i, summary |-> sum]

\* the handler continues the loop at result i and, at the end, responds
Continue(i, sum, total) ==
    LET l == LoopFrom(results', i, sum)
    IN  /\ fjPc' = l.pc
        /\ fjIdx' = l.idx
        /\ summary' = l.summary
        /\ totalInserted' = total
        /\ responses' = IF l.pc = "idle"
                        THEN Append(responses, [ok |-> TRUE, totalInserted |-> total,
                                                summary |-> l.summary])
                        ELSE responses

Busy(pc) == IF pc = "idle" THEN 0 ELSE 1

\* the requests received so far
RequestsStarted ==
    Len(responses) + Len(interrupted) + Busy(fjPc) + Len(extra.responses) + Busy(extra.pc)
      + Len(linkedin.responses) + Busy(linkedin.pc)
      + Len(backfill.responses) + Busy(backfill.pc)
      + Len(manual.adds) + manual.deletes

\* no outbound request made yet
NoCalls == [fetches |-> [s \in PrimarySources |-> 0], translations |-> {}]

\* requests already made for one field of one record of a source
Requested(calls, source, rec, field) ==
    IF \E c \in calls : c.source = source /\ c.rec = rec /\ c.field = field
    THEN (CHOOSE c \in calls : c.source = source /\ c.rec = rec /\ c.field = field).requests
    ELSE 0

\* the translation requests on record after ensureJobsEnglish(js) has run
\* for a source: per record and field, the requests translateToEnglish made
TranslationCalls(calls, source, js, replies) ==
    LET made(i, f) ==
            IF FieldInput(js[i], f) = ABSENT THEN 0
            ELSE translateToEnglish(FieldInput(js[i], f), replies[i][f]).requests
        touched == {<<i, f>> \in (DOMAIN js) \X TextFields : made(i, f) > 0}
    IN  {c \in calls : ~(c.source = source /\ <<c.rec, c.field>> \in touched)}
          \cup {[source |-> source, rec |-> k[1], field |-> k[2],
                  requests |-> Requested(calls, source, k[1], k[2]) + made(k[1], k[2])] :
                    k \in touched}

\* the request arrives; fetchAllJobSources awaits fetchRemotive
FetchJobsBegin ==
    /\ fjPc = "idle"
    /\ Len(responses) + Len(interrupted) < MaxRuns
    /\ RequestsStarted < MaxRequests
    /\ fjPc' = "fetch"
    /\ fjIdx' = 1
    /\ results' = << >>
    /\ rows' = << >>
    /\ totalInserted' = 0
    /\ summary' = << >>
    /\ fjWrites' = << >>
    /\ fjCalls' = NoCalls
    /\ UNCHANGED <<storeVars, feed, responses, interrupted, lastUpsert, otherVars, pureVars>>

\* an adapter settles; the next adapter is called or the loop starts
FetchJobsFetch ==
    /\ fjPc = "fetch"
    /\ results' = Append(results, FetchJobsResult(SourceNames[fjIdx], feed[SourceNames[fjIdx]]))
    /\ IF fjIdx < Len(SourceNames)
       THEN /\ fjIdx' = fjIdx + 1
            /\ UNCHANGED <<fjPc, summary, totalInserted, responses>>
       ELSE Continue(1, << >>, 0)
    /\ fjCalls' = [fjCalls EXCEPT !.fetches[SourceNames[fjIdx]] = @ + 1]
    /\ UNCHANGED <<storeVars, feed, rows, fjWrites, interrupted, lastUpsert, otherVars,
                   pureVars>>

\* ensureJobsEnglish settles; the upsert is issued
FetchJobsTranslate ==
    /\ fjPc = "translate"
    /\ LET filtered == Filtered(results[fjIdx].jobs)
       IN  \E replies \in ReplySeqs(filtered) :
               /\ rows' = MapSeq(ensureJobsEnglish(filtered, replies), IngestRow)
               /\ fjCalls' = [fjCalls EXCEPT !.translations =
                                 TranslationCalls(@, results[fjIdx].source, filtered, replies)]
    /\ fjPc' = "upsert"
    /\ fjWrites' = Append(fjWrites, results[fjIdx].source)
    /\ UNCHANGED <<storeVars, feed, fjIdx, results, totalInserted, summary,
                   responses, interrupted, lastUpsert, otherVars, pureVars>>

UpsertCall(path, source, payloads, failed, inserted) ==
    [path |-> path, source |-> source, rows |-> payloads, failed |-> failed,
     inserted |-> inserted, at |-> now]

\* mutant: a failed upsert ends the run with the summary so far
FetchJobsUpsertAborting ==
    /\ fjPc = "upsert"
    /\ LET source == results[fjIdx].source
           count == results[fjIdx].count
       IN  \/ /\ lastUpsert' = UpsertCall("fetch-jobs", source, rows, TRUE, 0)
              /\ UNCHANGED <<storeVars, results, totalInserted>>
              /\ fjPc' = "idle"
              /\ fjIdx' = fjIdx + 1
              /\ summary' = Append(summary, Entry(source, count, 0, "storage"))
              /\ responses' = Append(responses, [ok |-> TRUE, totalInserted |-> totalInserted,
                                                 summary |-> summary'])
           \/ LET u == Upsert(jobs, rows, nextId, now)
                  inserted == Len(u.data)
              IN  /\ jobs' = u.table
                  /\ nextId' = u.nextId
                  /\ now' = now + 1
                  /\ lastUpsert' = UpsertCall("fetch-jobs", source, rows, FALSE, inserted)
                  /\ results' = results
                  /\ Continue(fjIdx + 1, Append(summary, Entry(source, count, inserted, "")),
                              totalInserted + inserted)
    /\ rows' = << >>
    /\ UNCHANGED <<feed, fjWrites, fjCalls, interrupted, otherVars, pureVars>>

\* the upsert settles: with an error, or with the ids of the inserted rows
FetchJobsUpsert ==
    /\ fjPc = "upsert"
    /\ LET source == results[fjIdx].source
           count == results[fjIdx].count
       IN  \/ /\ lastUpsert' = UpsertCall("fetch-jobs", source, rows, TRUE, 0)
              /\ UNCHANGED storeVars
              /\ results' = results
              /\ Continue(fjIdx + 1, Append(summary, Entry(source, count, 0, "storage")),
                          totalInserted)
           \/ LET u == Upsert(jobs, rows, nextId, now)
                  inserted == Len(u.data)
              IN  /\ jobs' = u.table
                  /\ nextId' = u.nextId
                  /\ now' = now + 1
                  /\ lastUpsert' = UpsertCall("fetch-jobs", source, rows, FALSE, inserted)
                  /\ results' = results
                  /\ Continue(fjIdx + 1, Append(summary, Entry(source, count, inserted, "")),
                              totalInserted + inserted)
    /\ rows' = << >>
    /\ UNCHANGED <<feed, fjWrites, fjCalls, interrupted, otherVars, pureVars>>

FetchJobs == FetchJobsBegin \/ FetchJobsFetch \/ FetchJobsTranslate \/ FetchJobsUpsert

(* ----------------------------------------------------------------------- *)
(* Specifications                                                          *)
(* ----------------------------------------------------------------------- *)

NoCall == UpsertCall("none", "none", << >>, FALSE, 0)

InitStore ==
    /\ jobs = {}
    /\ nextId = 1
    /\ now = 1
    /\ lastUpsert = [NoCall EXCEPT !.at = 0]

InitFetchJobs ==
    /\ fjPc = "idle"
    /\ fjIdx = 1
    /\ results = << >>
    /\ rows = << >>
    /\ totalInserted = 0
    /\ summary = << >>
    /\ responses = << >>
    /\ fjWrites = << >>
    /\ fjCalls = NoCalls
    /\ interrupted = << >>

NoOutcome ==
    [text |-> << >>, requests |-> 0, query |-> << >>, threw |-> FALSE,
     reply |-> ReplyThrow, done |-> FALSE]

InitOthers ==
    /\ extra = [pc |-> "idle", jobs |-> << >>, rows |-> << >>, responses |-> << >>]
    /\ linkedin = [pc |-> "idle", jobs |-> << >>, rows |-> << >>, responses |-> << >>]
    /\ backfill = [pc |-> "idle", jobs |-> << >>, translated |-> << >>, i |-> 1,
                   updated |-> 0, failed |-> 0, responses |-> << >>]
    /\ manual = [adds |-> << >>, deletes |-> 0]

IdleTranslate ==
    /\ tOut = NoOutcome
    /\ enOut = [english |-> TRUE, done |-> FALSE]

IdleAdapters ==
    /\ adIn = Response("ok", TRUE, << >>)
    /\ adOut = [source |-> "none", result |-> Returned(<< >>)]

\* no ensureJobsEnglish call is being followed
IdleBatch ==
    ej = [pc |-> "idle", jobs |-> << >>, i |-> 1, recs |-> << >>, out |-> << >>]

\* no GET /api/jobs request is being followed
IdleQuery ==
    gj = [pc |-> "idle", params |-> << >>, optionalColumns |-> TRUE,
          queries |-> << >>, status |-> 0, body |-> << >>]

InitPure ==
    /\ tIn = << >>
    /\ IdleTranslate
    /\ IdleAdapters
    /\ IdleBatch
    /\ IdleQuery

\* repeated runs of GET /api/fetch-jobs against fixed provider responses
InitFetch ==
    /\ InitStore
    /\ InitFetchJobs
    /\ InitOthers
    /\ InitPure
    /\ \E f \in [PrimarySources -> FeedOptions] :
           feed = [s \in AllSources |->
                      IF s \in PrimarySources THEN f[s] ELSE Response("ok", TRUE, << >>)]

NextFetch == FetchJobsBegin \/ FetchJobsFetch \/ FetchJobsTranslate \/ FetchJobsUpsert

SpecFetch == InitFetch /\ [][NextFetch]_vars

(* ----------------------------------------------------------------------- *)
(* Properties of GET /api/fetch-jobs                                       *)
(* ----------------------------------------------------------------------- *)

Range(s) == {s[i] : i \in 1..Len(s)}

RECURSIVE SumInserted(_)
SumInserted(sum) == IF sum = << >> THEN 0 ELSE Head(sum).inserted + SumInserted(Tail(sum))

\* the distinct apply_urls among a source's records with a non-blank
\* apply_url that the table does not hold
NonBlank(s) == \E i \in 1..Len(s) : s[i] >= 0 /\ ~IsWhiteSpace(s[i])

NewUrls(result, table) ==
    {j.apply_url : j \in {x \in Range(result.jobs) : NonBlank(x.apply_url)}}
        \ {r.apply_url : r \in table}

\* the source delivered a record with a non-blank apply_url
HasUsableRecord(result) == \E j \in Range(result.jobs) : NonBlank(j.apply_url)

SourceFailed(source) == feed[source].status # "ok"

\* a run has just returned its response
RunReturned == fjPc = "idle" /\ responses # << >>

LastResponse == responses[Len(responses)]

\* the step in which the awaited upsert of GET /api/fetch-jobs settles
IsFetchJobsUpsertStep == fjPc = "upsert" /\ fjPc' # "upsert"

\* no upsert of the first run failed
FirstRunStored ==
    /\ Len(responses) >= 1
    /\ \A i \in DOMAIN responses[1].summary : responses[1].summary[i].error # "storage"

UniqueApplyUrl == \A r1 \in jobs, r2 \in jobs : r1.apply_url = r2.apply_url => r1 = r2

SecondRunInsertsNothing ==
    Len(responses) >= 2 =>
        \A i \in DOMAIN responses[2].summary : responses[2].summary[i].inserted = 0

C4_FailureIsolated_Claimed ==
    RunReturned =>
        /\ Len(LastResponse.summary) = Len(SourceNames)
        /\ \A i \in 1..Len(SourceNames) :
              LET e == LastResponse.summary[i]
                  source == SourceNames[i]
              IN  /\ e.source = source
                  /\ SourceFailed(source) =>
                        /\ e.fetched = 0 /\ e.inserted = 0 /\ e.error # ""
                        /\ source \notin Range(fjWrites)
                  /\ (~SourceFailed(source) /\ HasUsableRecord(results[i])) =>
                        source \in Range(fjWrites)

\* C5 (as claimed): a primary adapter whose request times out or gets a
\* non-success status has the error recorded in its summary entry.
C5_FailureRecorded_Claimed ==
    \A k \in DOMAIN responses :
        \A i \in DOMAIN responses[k].summary :
            SourceFailed(responses[k].summary[i].source) =>
                responses[k].summary[i].error # ""

\* every summary entry that did not come from a successful upsert reports
\* inserted = 0, and totalInserted is the sum of the entries
TotalsAddUp ==
    /\ \A k \in DOMAIN responses :
          /\ responses[k].totalInserted = SumInserted(responses[k].summary)
          /\ \A i \in DOMAIN responses[k].summary :
                responses[k].summary[i].error # "" => responses[k].summary[i].inserted = 0
    /\ \A i \in DOMAIN summary :
          (i \in DOMAIN results /\ ~HasUsableRecord(results[i])) => summary[i].inserted = 0

\* C6 (as claimed): for every source whose fetch succeeded, inserted is the
\* number of distinct non-blank apply_urls of the source that were absent
\* from the table when its upsert ran; totalInserted is the sum.
C6_InsertedCount_Claimed ==
    /\ [][IsFetchJobsUpsertStep =>
            summary'[fjIdx].inserted = Cardinality(NewUrls(results[fjIdx], jobs))]_vars
    /\ []TotalsAddUp

\* C6 (amended): for every source whose fetch succeeded and whose upsert did
\* not fail, inserted is the number of distinct non-blank apply_urls of the
\* source that were absent from the table when its upsert ran; an entry
\* with an error has inserted = 0; totalInserted is the sum.
C6_InsertedCount ==
    /\ [][IsFetchJobsUpsertStep =>
            IF summary'[fjIdx].error = ""
            THEN summary'[fjIdx].inserted = Cardinality(NewUrls(results[fjIdx], jobs))
            ELSE summary'[fjIdx].inserted = 0]_vars
    /\ []TotalsAddUp

\* a response with an entry that inserted some but not all of its source's
\* apply_urls, next to an entry with an error
C6_Witness ==
    /\ RunReturned
    /\ \E i \in DOMAIN LastResponse.summary :
          LET e == LastResponse.summary[i]
          IN  /\ e.error = "" /\ e.inserted > 0
              /\ e.inserted < Cardinality(NewUrls(results[i], {}))
    /\ \E i \in DOMAIN LastResponse.summary : LastResponse.summary[i].error # ""
    /\ LastResponse.totalInserted >= 2

\* C8 (as claimed): when the fetch of a source begins, the fetch, translation
\* and upsert of every earlier source have completed.
C8_Sequential_Claimed ==
    (fjPc = "fetch" /\ fjIdx > 1) =>
        \A k \in 1..(fjIdx - 1) :
            HasUsableRecord(results[k]) =>
                results[k].source \in Range(fjWrites) /\ Len(summary) >= k

\* C8 (amended): the three fetches run one after another and all complete
\* before any translation or upsert; after that the sources are processed
\* strictly one after another in the same order: the translation and the
\* upsert of a source have completed before the next source's translation
\* begins.
C8_Sequential ==
    /\ fjPc = "fetch" =>
          Len(results) = fjIdx - 1 /\ summary = << >> /\ fjWrites = << >>
    /\ fjPc \in {"translate", "upsert"} =>
          /\ Len(results) = Len(SourceNames)
          /\ Len(summary) = fjIdx - 1
          /\ \A w \in DOMAIN fjWrites :
                \E k \in 1..fjIdx :
                    /\ SourceNames[k] = fjWrites[w]
                    /\ (k = fjIdx => fjPc = "upsert" /\ w = Len(fjWrites))
                    /\ \A v \in 1..(w - 1) :
                          \E h \in 1..(k - 1) : SourceNames[h] = fjWrites[v]

\* the third source is being translated after the first two were upserted
C8_Witness ==
    /\ fjPc = "translate"
    /\ fjIdx = 3
    /\ fjWrites = <<"remotive", "remoteok">>

\* C21: when the upsert of one source fails during GET /api/fetch-jobs, the
\* table is left as it was, the source's summary entry carries the storage
\* error with inserted = 0 and totalInserted does not change; the run still
\* returns a summary with one entry per source, and every later source that
\* was fetched with a usable record has been translated and upserted.
C21_UpsertFailureIsolated ==
    /\ [][(IsFetchJobsUpsertStep /\ lastUpsert'.failed) =>
             /\ jobs' = jobs
             /\ totalInserted' = totalInserted
             /\ summary'[fjIdx] = Entry(results[fjIdx].source, results[fjIdx].count,
                                        0, "storage")]_vars
    /\ [](RunReturned =>
             /\ Len(LastResponse.summary) = Len(SourceNames)
             /\ LastResponse.totalInserted = SumInserted(LastResponse.summary)
             /\ \A i \in DOMAIN LastResponse.summary :
                    LastResponse.summary[i].error = "storage" =>
                        /\ LastResponse.summary[i].inserted = 0
                        /\ \A k \in (i + 1)..Len(SourceNames) :
                              (~SourceFailed(SourceNames[k]) /\ HasUsableRecord(results[k])) =>
                                  /\ SourceNames[k] \in Range(fjWrites)
                                  /\ LastResponse.summary[k].error \in {"", "storage"})

\* a run has returned in which the upsert of a source failed and a later
\* source's upsert inserted rows
C21_Witness ==
    /\ RunReturned
    /\ \E i \in DOMAIN LastResponse.summary :
          /\ LastResponse.summary[i].error = "storage"
          /\ \E k \in (i + 1)..Len(LastResponse.summary) :
                LastResponse.summary[k].error = "" /\ LastResponse.summary[k].inserted > 0

\* C25 (as claimed): every row that an upsert of GET /api/fetch-jobs newly
\* inserts carries the category, publication_date and experience_level of a
\* record of the source with that apply_url.
C25_OptionalFieldsStored_Claimed ==
    [][IsFetchJobsUpsertStep =>
          \A r \in jobs' \ jobs :
              \E j \in Range(results[fjIdx].jobs) :
                  /\ j.apply_url = r.apply_url
                  /\ r.category = j.category
                  /\ r.publication_date = j.publication_date
                  /\ r.experience_level = j.experience_level]_vars

(* ----------------------------------------------------------------------- *)
(* Interrupted runs of GET /api/fetch-jobs                                 *)
(* ----------------------------------------------------------------------- *)

\* The process serving the request stops at one of its awaits and nothing
\* after that await runs.  An upsert statement that was already sent is
\* either carried out by storage as a whole or not at all.
FetchJobsInterrupt ==
    /\ fjPc # "idle"
    /\ Len(interrupted) < MaxInterrupts
    /\ \/ UNCHANGED <<storeVars, lastUpsert>>
       \/ /\ fjPc = "upsert"
          /\ LET u == Upsert(jobs, rows, nextId, now)
             IN  /\ jobs' = u.table
                 /\ nextId' = u.nextId
                 /\ now' = now + 1
                 /\ lastUpsert' = UpsertCall("fetch-jobs", results[fjIdx].source, rows,
                                             FALSE, Len(u.data))
    /\ interrupted' = Append(interrupted, Len(responses))
    /\ fjPc' = "idle"
    /\ fjIdx' = 1
    /\ results' = << >>
    /\ rows' = << >>
    /\ totalInserted' = 0
    /\ summary' = << >>
    /\ UNCHANGED <<feed, responses, fjWrites, fjCalls, otherVars, pureVars>>

\* what each source answers when it does not fail: two listings, a third
\* listing followed by the first one again and by one with a blank url,
\* and the second listing next to a blank one
InterruptListings ==
    [remotive |-> <<ItemA, ItemB>>,
     remoteok |-> <<ItemNoTitle, ItemA2, ItemBlank>>,
     arbeitnow |-> <<ItemB, ItemBlank>>]

InitInterrupt ==
    /\ InitStore
    /\ InitFetchJobs
    /\ InitOthers
    /\ InitPure
    /\ \E failing \in SUBSET PrimarySources :
           feed = [s \in AllSources |->
                      IF s \notin PrimarySources THEN Response("ok", TRUE, << >>)
                      ELSE IF s \in failing THEN Response("timeout", FALSE, << >>)
                      ELSE Response("ok", TRUE, InterruptListings[s])]

NextInterrupt ==
    \/ FetchJobsBegin \/ FetchJobsFetch \/ FetchJobsTranslate \/ FetchJobsUpsert
    \/ FetchJobsInterrupt

SpecInterrupt == InitInterrupt /\ [][NextInterrupt]_vars

StoredUrls(table) == {r.apply_url : r \in table}

\* the non-blank apply_urls among a source's records
UsableUrls(result) == {j.apply_url : j \in {x \in Range(result.jobs) : NonBlank(x.apply_url)}}

\* the apply_urls one uninterrupted run stores in an empty table when the
\* upserts of the sources in failing fail and the others are carried out
RunUrls(failing) ==
    UNION {UsableUrls(FetchJobsResult(s, feed[s])) : s \in PrimarySources \ failing}

\* the sources whose upsert failed in a run, by its response
FailedIn(response) ==
    {response.summary[i].source : i \in {k \in DOMAIN response.summary :
                                            response.summary[k].error = "storage"}}

\* a run has returned its response after the latest interruption
ReRunReturned ==
    /\ fjPc = "idle"
    /\ interrupted # << >>
    /\ Len(responses) > interrupted[Len(interrupted)]

\* C19: whenever the table changes during runs of GET /api/fetch-jobs, one
\* of which is interrupted, it gains the rows of the whole batch of the
\* source being upserted and loses none; and when a run has been carried
\* through after an interruption, no two rows share an apply_url and the
\* stored apply_urls are those of one uninterrupted run: all usable
\* apply_urls of the sources, less those of sources whose upsert failed in
\* that run and was not carried out before.
C19_InterruptedRunRecovers ==
    /\ [][jobs' # jobs =>
             /\ fjPc = "upsert"
             /\ jobs \subseteq jobs'
             /\ StoredUrls(jobs') = StoredUrls(jobs) \cup UsableUrls(results[fjIdx])]_vars
    /\ [](ReRunReturned =>
             /\ UniqueApplyUrl
             /\ \E failing \in SUBSET FailedIn(LastResponse) :
                    StoredUrls(jobs) = RunUrls(failing))

\* the run after the interruption found the first source's rows stored and
\* inserted rows of a later source
C19_Witness ==
    /\ ReRunReturned
    /\ interrupted = <<0>>
    /\ Len(responses) = 1
    /\ LastResponse.summary[1].fetched > 0
    /\ LastResponse.summary[1].inserted = 0
    /\ LastResponse.summary[1].error = ""
    /\ LastResponse.summary[2].inserted > 0

\* C20: within one run of GET /api/fetch-jobs each source endpoint has
\* received at most one fetch request and each text field of each record
\* has caused at most one translation request, whether the requests
\* succeeded or failed.
C20_NoRetry ==
    /\ \A s \in PrimarySources : fjCalls.fetches[s] <= 1
    /\ \A c \in fjCalls.translations : c.requests <= 1
    /\ \A c, d \in fjCalls.translations :
          (c.source = d.source /\ c.rec = d.rec /\ c.field = d.field) => c = d

\* a run has returned after a fetch that failed and a translation request
\* that failed
C20_Witness ==
    /\ RunReturned
    /\ \E s \in PrimarySources : SourceFailed(s) /\ fjCalls.fetches[s] = 1
    /\ \E c \in fjCalls.translations : c.field = "title" /\ c.requests = 1
    /\ \E r \in jobs : r.title = S_cjk

(* ----------------------------------------------------------------------- *)
(* translateToEnglish on its own                                           *)
(* ----------------------------------------------------------------------- *)

\* space, "a", e-acute, the euro sign, a CJK ideograph
Alphabet == {32, 97, 233, 8364, 25307}

RECURSIVE TextsUpTo(_)
TextsUpTo(n) ==
    IF n = 0 THEN {<< >>}
    ELSE LET shorter == TextsUpTo(n - 1)
         IN  shorter \cup {Append(t, c) : t \in {x \in shorter : Len(x) = n - 1}, c \in Alphabet}

\* texts around the 15% threshold and beyond MAX_CHARS_PER_REQUEST
LongTexts ==
    {Repeat(97, 6) \o <<8364>>,
     Repeat(97, 5) \o <<8364>>,
     <<32>> \o Repeat(97, MAX_CHARS_PER_REQUEST + 1),
     Repeat(25307, MAX_CHARS_PER_REQUEST + 1),
     Repeat(97, MAX_CHARS_PER_REQUEST) \o <<25307>>}

TextInputs == TextsUpTo(MaxLen) \cup LongTexts

InitTranslate ==
    /\ InitStore
    /\ InitFetchJobs
    /\ InitOthers
    /\ feed = [s \in AllSources |-> Response("ok", TRUE, << >>)]
    /\ tIn \in TextInputs
    /\ IdleTranslate
    /\ IdleAdapters
    /\ IdleBatch
    /\ IdleQuery

\* one call translateToEnglish(tIn) with any answer of the provider
TranslateCall ==
    /\ ~tOut.done
    /\ \E reply \in Replies :
          LET r == translateToEnglish(tIn, reply)
          IN  tOut' = [text |-> r.text, requests |-> r.requests, query |-> r.query,
                       threw |-> r.threw, reply |-> reply, done |-> TRUE]
    /\ UNCHANGED <<storeVars, feed, fjVars, lastUpsert, otherVars, tIn, adapterVars, enOut, ej, gj>>

NextTranslate == TranslateCall

SpecTranslate == InitTranslate /\ [][NextTranslate]_vars

\* the provider answered successfully with a translation that is not empty
\* and without the quota flag
ReplySucceeded(reply) ==
    /\ reply.kind = "http" /\ reply.ok /\ ~reply.quotaFinished
    /\ ~IsNullish(reply.translatedText)
    /\ Trim(reply.translatedText) # << >>

\* C9: translateToEnglish always returns: the trimmed original text for
\* every failed outcome of the request, and text other than the trimmed
\* original only when the provider answered successfully with a non-empty
\* translation and no quota flag (then the trimmed translation).
C9_TranslateNeverFails ==
    tOut.done =>
        /\ ~tOut.threw
        /\ (tOut.requests = 1 /\ ~ReplySucceeded(tOut.reply)) => tOut.text = Trim(tIn)
        /\ tOut.text # Trim(tIn) =>
              /\ tOut.requests = 1
              /\ ReplySucceeded(tOut.reply)
              /\ tOut.text = Trim(tOut.reply.translatedText)
        /\ (tOut.requests = 1 /\ ReplySucceeded(tOut.reply)) =>
              tOut.text = Trim(tOut.reply.translatedText)

\* a request answered with the quota flag next to a usable translation
C9_Witness ==
    /\ tOut.done
    /\ tOut.requests = 1
    /\ tOut.reply.kind = "http" /\ tOut.reply.ok /\ tOut.reply.quotaFinished
    /\ tOut.reply.translatedText = EnglishText
    /\ tOut.text = Trim(tIn)
    /\ tIn # Trim(tIn)

\* C10: for an input that is empty, whitespace-only or likely English by
\* isLikelyEnglish, translateToEnglish issues no request and returns the
\* trimmed input.
C10_NoRequestForEnglish ==
    (tOut.done /\ (tIn = << >> \/ Trim(tIn) = << >> \/ isLikelyEnglish(tIn))) =>
        tOut.requests = 0 /\ tOut.text = Trim(tIn)

\* an untrimmed likely-English input of more than one character went
\* through without a request
C10_Witness ==
    /\ tOut.done
    /\ Len(tIn) >= 2 /\ isLikelyEnglish(tIn)
    /\ Trim(tIn) # tIn /\ Trim(tIn) # << >>
    /\ tOut.requests = 0 /\ tOut.text = Trim(tIn)

(* ----------------------------------------------------------------------- *)
(* isLikelyEnglish on its own                                              *)
(* ----------------------------------------------------------------------- *)

\* one call isLikelyEnglish(tIn)
EnglishCall ==
    /\ ~enOut.done
    /\ enOut' = [english |-> isLikelyEnglish(tIn), done |-> TRUE]
    /\ UNCHANGED <<storeVars, feed, fjVars, lastUpsert, otherVars, translateVars, adapterVars, ej, gj>>

NextEnglish == EnglishCall

SpecEnglish == InitTranslate /\ [][NextEnglish]_vars

\* code points of the CJK Unified Ideographs block
IsCJK(c) == c >= 19968 /\ c <= 40959

\* C11 (as claimed): isLikelyEnglish answers false for every string that
\* holds a CJK Unified Ideograph, whatever its length, and true for every
\* string of two or more ASCII characters.
C11_CJKNotEnglish_Claimed ==
    enOut.done =>
        /\ (\E i \in DOMAIN tIn : IsCJK(tIn[i])) => ~enOut.english
        /\ (Len(tIn) >= 2 /\ \A i \in DOMAIN tIn : tIn[i] <= 127) => enOut.english

(* ----------------------------------------------------------------------- *)
(* ensureJobsEnglish as it runs                                            *)
(* ----------------------------------------------------------------------- *)

CONCURRENCY == 3

\* longest list handed to the ensureJobsEnglish call that is followed
MaxBatchJobs == 4

TextJob(title, company, location, description) ==
    [title |-> title, company |-> company, location |-> location,
     description |-> description]

\* an English record without location and description, a record whose
\* title, location and description need a request, and a record with an
\* empty location and a blank description whose company needs a request
BatchJobKinds ==
    {TextJob(S_ab, S_c, NULL, ABSENT),
     TextJob(S_cjk, S_c, S_cjk, S_cjk),
     TextJob(S_ab, S_cjk, << >>, <<32>>)}

RECURSIVE JobLists(_)
JobLists(n) ==
    IF n = 0 THEN {<< >>}
    ELSE LET shorter == JobLists(n - 1)
         IN  shorter \cup {Append(l, j) : l \in {x \in shorter : Len(x) = n - 1},
                                          j \in BatchJobKinds}

\* the awaits of ensureJobEnglish in program order: a translateToEnglish
\* call for a field, or delay(REQUEST_DELAY_MS)
Steps == <<"title", "delay", "company", "delay", "location", "delay", "description">>

Finished == Len(Steps) + 1

\* a record of the list whose ensureJobEnglish has not been called
NotStarted == [at |-> 0, waiting |-> FALSE, open |-> {}, log |-> << >>]

\* the awaited call of the record returned
Leave(rec) == [rec EXCEPT !.waiting = FALSE, !.open = rec.open \ {Steps[rec.at]}]

\* mutant: the delays between the calls are left out
RECURSIVE EnterStepWithoutDelay(_, _, _)
EnterStepWithoutDelay(job, rec, p) ==
    IF p = Finished THEN [rec EXCEPT !.at = Finished]
    ELSE IF Steps[p] = "delay" THEN EnterStepWithoutDelay(job, rec, p + 1)
    ELSE IF FieldInput(job, Steps[p]) = ABSENT THEN EnterStepWithoutDelay(job, rec, p + 1)
    ELSE [at |-> p,
          waiting |-> FieldRequests(job, Steps[p]),
          open |-> rec.open \cup {Steps[p]},
          log |-> Append(rec.log, Steps[p])]

\* ensureJobEnglish runs on from step p to its next await: a field whose
\* translateToEnglish call is not made (empty location, blank description)
\* is passed over; a call that needs the provider leaves a request
\* outstanding
RECURSIVE EnterStep(_, _, _)
EnterStep(job, rec, p) ==
    IF p = Finished THEN [rec EXCEPT !.at = Finished]
    ELSE IF Steps[p] = "delay"
         THEN [rec EXCEPT !.at = p, !.log = Append(rec.log, "delay")]
    ELSE IF FieldInput(job, Steps[p]) = ABSENT THEN EnterStep(job, rec, p + 1)
    ELSE [at |-> p,
          waiting |-> FieldRequests(job, Steps[p]),
          open |-> rec.open \cup {Steps[p]},
          log |-> Append(rec.log, Steps[p])]

\* mutant: one record more per batch
StartBatchOfFour(js, recs, i) ==
    [k \in DOMAIN recs |->
        IF k >= i /\ k < i + CONCURRENCY + 1
        THEN EnterStep(js[k], NotStarted, 1)
        ELSE recs[k]]

\* batch.map((j) => ensureJobEnglish(j)) for the batch that starts at i
StartBatch(js, recs, i) ==
    [k \in DOMAIN recs |->
        IF k >= i /\ k < i + CONCURRENCY
        THEN EnterStep(js[k], NotStarted, 1)
        ELSE recs[k]]

InBatch(k) == k >= ej.i /\ k < ej.i + CONCURRENCY

BatchFrame ==
    UNCHANGED <<storeVars, feed, fjVars, lastUpsert, otherVars, translateVars,
                adapterVars, enOut, gj>>

\* ensureJobsEnglish(jobs) is called: the first batch starts, or the empty
\* list is returned
EjCall ==
    /\ ej.pc = "idle"
    /\ ej' = IF ej.jobs = << >>
             THEN [ej EXCEPT !.pc = "done"]
             ELSE [ej EXCEPT !.pc = "batch", !.recs = StartBatch(ej.jobs, ej.recs, 1)]
    /\ BatchFrame

\* the provider's answer to a record's outstanding request arrives, or
\* the request fails: translateToEnglish returns either way
EjRequestSettles ==
    /\ ej.pc = "batch"
    /\ \E k \in DOMAIN ej.recs :
          LET r == ej.recs[k] IN
              /\ r.at \in 1..Len(Steps) /\ Steps[r.at] # "delay" /\ r.waiting
              /\ ej' = [ej EXCEPT !.recs[k] = EnterStep(ej.jobs[k], Leave(r), r.at + 1)]
    /\ BatchFrame

\* a translateToEnglish call that made no request returns
EjCallReturns ==
    /\ ej.pc = "batch"
    /\ \E k \in DOMAIN ej.recs :
          LET r == ej.recs[k] IN
              /\ r.at \in 1..Len(Steps) /\ Steps[r.at] # "delay" /\ ~r.waiting
              /\ ej' = [ej EXCEPT !.recs[k] = EnterStep(ej.jobs[k], Leave(r), r.at + 1)]
    /\ BatchFrame

\* a record's delay(REQUEST_DELAY_MS) elapses
EjTimerFires ==
    /\ ej.pc = "batch"
    /\ \E k \in DOMAIN ej.recs :
          LET r == ej.recs[k] IN
              /\ r.at \in 1..Len(Steps) /\ Steps[r.at] = "delay"
              /\ ej' = [ej EXCEPT !.recs[k] = EnterStep(ej.jobs[k], r, r.at + 1)]
    /\ BatchFrame

\* Promise.all of the batch resolves: its records are pushed to out in
\* input order and the loop starts the next batch or returns
EjBatchResolves ==
    /\ ej.pc = "batch"
    /\ \A k \in DOMAIN ej.recs : InBatch(k) => ej.recs[k].at = Finished
    /\ LET next == ej.i + CONCURRENCY
           pushed == SelectSeq([k \in DOMAIN ej.recs |-> k], InBatch)
       IN  ej' = IF next > Len(ej.jobs)
                 THEN [ej EXCEPT !.pc = "done", !.i = next, !.out = ej.out \o pushed]
                 ELSE [ej EXCEPT !.i = next, !.out = ej.out \o pushed,
                                 !.recs = StartBatch(ej.jobs, ej.recs, next)]
    /\ BatchFrame

InitBatch ==
    /\ InitStore
    /\ InitFetchJobs
    /\ InitOthers
    /\ feed = [s \in AllSources |-> Response("ok", TRUE, << >>)]
    /\ tIn = << >>
    /\ IdleTranslate
    /\ IdleAdapters
    /\ IdleQuery
    /\ \E js \in JobLists(MaxBatchJobs) :
          ej = [pc |-> "idle", jobs |-> js, i |-> 1,
                recs |-> [k \in DOMAIN js |-> NotStarted], out |-> << >>]

NextBatch ==
    EjCall \/ EjRequestSettles \/ EjCallReturns \/ EjTimerFires \/ EjBatchResolves

SpecBatch == InitBatch /\ [][NextBatch]_vars

\* records whose ensureJobEnglish has been called and has not returned
InProgress == {k \in DOMAIN ej.recs : ej.recs[k].at \in 1..Len(Steps)}

\* records with a translation request outstanding
Outstanding == {k \in DOMAIN ej.recs : ej.recs[k].waiting}

\* the batch a record of the list belongs to, batches of three
BatchOf(k) == (k - 1) \div 3

\* C12: during an ensureJobsEnglish call at most 3 records are in
\* translation and at most 3 translation requests are outstanding at any
\* moment, and a record of a later batch has not started while a record of
\* an earlier batch has not finished.
C12_AtMostThree ==
    /\ Cardinality(InProgress) <= 3
    /\ Cardinality(Outstanding) <= 3
    /\ \A k \in DOMAIN ej.recs : Cardinality(ej.recs[k].open) <= 1
    /\ \A j, k \in DOMAIN ej.recs :
          (BatchOf(j) < BatchOf(k) /\ ej.recs[k].at >= 1) => ej.recs[j].at = Finished

\* three requests are outstanding while a fourth record that needs one
\* waits for its batch
C12_Witness ==
    /\ Len(ej.jobs) >= 4
    /\ Cardinality(Outstanding) = 3
    /\ ej.recs[4].at = 0
    /\ FieldRequests(ej.jobs[4], "title")

\* the events of one record that are translateToEnglish calls
IsCallEvent(e) == e # "delay"

\* position of a field's call in the program order of ensureJobEnglish
Rank(field) == CHOOSE p \in DOMAIN Steps : Steps[p] = field

\* the calls of a record's log are in the order title, company, location,
\* description and no two of its calls are open together
CallsInOrder(rec) ==
    /\ Cardinality(rec.open) <= 1
    /\ \A m, n \in DOMAIN rec.log :
          (m < n /\ IsCallEvent(rec.log[m]) /\ IsCallEvent(rec.log[n]))
              => Rank(rec.log[m]) < Rank(rec.log[n])

\* C13 (as claimed): within one record the fields are translated one at a
\* time in the order title, company, location, description, and every one
\* of the translation calls, the title's included, comes right after a
\* delay step.
C13_DelayBeforeEachCall_Claimed ==
    \A k \in DOMAIN ej.recs :
        LET rec == ej.recs[k] IN
            /\ CallsInOrder(rec)
            /\ \A n \in DOMAIN rec.log :
                  IsCallEvent(rec.log[n]) => (n > 1 /\ rec.log[n - 1] = "delay")

\* C13: within one record the translation calls are made one at a time in
\* the order title, company, location, description; the title call comes
\* first with no delay before it, every later call comes right after a
\* delay step, and a finished record has gone through exactly three delays
\* (the location call is left out for an empty location and the
\* description call for a blank description; their delays still elapse).
C13_DelayBetweenCalls ==
    \A k \in DOMAIN ej.recs :
        LET rec == ej.recs[k] IN
            /\ CallsInOrder(rec)
            /\ rec.at >= 1 => rec.log[1] = "title"
            /\ \A n \in DOMAIN rec.log :
                  (n > 1 /\ IsCallEvent(rec.log[n])) => rec.log[n - 1] = "delay"
            /\ rec.at = Finished =>
                  /\ Cardinality({n \in DOMAIN rec.log : rec.log[n] = "delay"}) = 3
                  /\ \A f \in TextFields :
                        (\E n \in DOMAIN rec.log : rec.log[n] = f)
                            <=> FieldInput(ej.jobs[k], f) # ABSENT

\* a record went through all four calls and the three delays between them
C13_Witness ==
    \E k \in DOMAIN ej.recs :
        /\ ej.recs[k].at = Finished
        /\ ej.recs[k].log = Steps
        /\ FieldRequests(ej.jobs[k], "title")

(* ----------------------------------------------------------------------- *)
(* ensureJobsEnglish by its result                                         *)
(* ----------------------------------------------------------------------- *)

\* an English record without location and description; a record whose
\* title needs a request; an English record whose description is longer
\* than one request takes; an English record with untrimmed title and
\* blank location and description
EnsureJobKinds ==
    {TextJob(S_ab, S_c, NULL, ABSENT),
     TextJob(S_cjk, S_c, S_l, S_d),
     TextJob(S_ab, S_c, S_Remote, Repeat(97, MAX_CHARS_PER_REQUEST + 1)),
     TextJob(<<32, 97, 98, 32>>, S_c, <<32>>, <<32>>)}

RECURSIVE EnsureJobLists(_)
EnsureJobLists(n) ==
    IF n = 0 THEN {<< >>}
    ELSE LET shorter == EnsureJobLists(n - 1)
         IN  shorter \cup {Append(l, j) : l \in {x \in shorter : Len(x) = n - 1},
                                          j \in EnsureJobKinds}

\* the records as a caller hands them over: each with its own id and
\* apply_url next to the four text fields
Keyed(js) ==
    [k \in DOMAIN js |->
        [id |-> <<k>>, apply_url |-> <<117, 48 + k>>, title |-> js[k].title,
         company |-> js[k].company, location |-> js[k].location,
         description |-> js[k].description]]

\* the fields of a record for which translateToEnglish sent a request
RequestsMade(job, replies) ==
    {f \in TextFields :
        /\ FieldInput(job, f) # ABSENT
        /\ translateToEnglish(FieldInput(job, f), replies[f]).requests > 0}

\* ensureJobsEnglish(jobs) is called and returns
EnsureJobsCall ==
    /\ ej.pc = "idle"
    /\ \E replies \in ReplySeqs(ej.jobs) :
          ej' = [ej EXCEPT !.pc = "done",
                           !.out = ensureJobsEnglish(ej.jobs, replies),
                           !.recs = [k \in DOMAIN ej.jobs |->
                                        RequestsMade(ej.jobs[k], replies[k])]]
    /\ BatchFrame

InitEnsure ==
    /\ InitStore
    /\ InitFetchJobs
    /\ InitOthers
    /\ feed = [s \in AllSources |-> Response("ok", TRUE, << >>)]
    /\ tIn = << >>
    /\ IdleTranslate
    /\ IdleAdapters
    /\ IdleQuery
    /\ \E js \in EnsureJobLists(MaxBatchJobs) :
          ej = [pc |-> "idle", jobs |-> Keyed(js), i |-> 1, recs |-> << >>, out |-> << >>]

NextEnsure == EnsureJobsCall

SpecEnsure == InitEnsure /\ [][NextEnsure]_vars

\* a field's text without surrounding whitespace; no text for null
TextOf(v) == IF IsNullish(v) THEN << >> ELSE Trim(v)

\* the four text fields of a record are likely English
LikelyEnglishJob(job) ==
    /\ isLikelyEnglish(job.title)
    /\ isLikelyEnglish(job.company)
    /\ IsNullish(job.location) \/ isLikelyEnglish(job.location)
    /\ IsNullish(job.description) \/ isLikelyEnglish(job.description)

\* C26 (as claimed): for a record whose four text fields are likely
\* English, each output field of ensureJobEnglish equals its input up to
\* surrounding whitespace and no translation request is made.
C26_EnglishUntouched_Claimed ==
    ej.pc = "done" =>
        \A k \in DOMAIN ej.jobs :
            LikelyEnglishJob(ej.jobs[k]) =>
                /\ ej.recs[k] = {}
                /\ TextOf(ej.out[k].title) = TextOf(ej.jobs[k].title)
                /\ TextOf(ej.out[k].company) = TextOf(ej.jobs[k].company)
                /\ TextOf(ej.out[k].location) = TextOf(ej.jobs[k].location)
                /\ TextOf(ej.out[k].description) = TextOf(ej.jobs[k].description)

MaxItems == 2

RawValues == {ABSENT, NULL, << >>, S_u}

RawItems ==
    {RawItem(TRUE, url, applyUrl, title, company, ABSENT, NULL, ABSENT, ABSENT, ABSENT, ABSENT) :
        url \in RawValues, applyUrl \in {ABSENT, S_v}, title \in RawValues, company \in RawValues}
      \cup {RawItem(FALSE, ABSENT, ABSENT, ABSENT, ABSENT, ABSENT, ABSENT, ABSENT, ABSENT, ABSENT, ABSENT)}

RECURSIVE ItemLists(_)
ItemLists(n) ==
    IF n = 0 THEN {<< >>}
    ELSE LET shorter == ItemLists(n - 1)
         IN  shorter \cup {Append(l, i) : l \in {x \in shorter : Len(x) = n - 1}, i \in RawItems}

AdapterNames == {"remotive", "remoteok", "arbeitnow", "jobicy"}

InitAdapters ==
    /\ InitStore
    /\ InitFetchJobs
    /\ InitOthers
    /\ feed = [s \in AllSources |-> Response("ok", TRUE, << >>)]
    /\ tIn = << >>
    /\ IdleTranslate
    /\ IdleBatch
    /\ IdleQuery
    /\ \/ \E items \in ItemLists(MaxItems) : adIn = Response("ok", TRUE, items)
       \/ adIn \in {Response("ok", FALSE, << >>), Response("timeout", FALSE, << >>),
                    Response("http_error", FALSE, << >>)}
    /\ adOut = [source |-> "none", result |-> Returned(<< >>)]

\* one adapter handles the response adIn
AdapterCall ==
    /\ adOut.source = "none"
    /\ \E source \in AdapterNames :
          adOut' = [source |-> source, result |-> Adapter(source, adIn)]
    /\ UNCHANGED <<storeVars, feed, fjVars, lastUpsert, otherVars, translateVars, enOut, ej, gj, adIn>>

NextAdapters == AdapterCall

SpecAdapters == InitAdapters /\ [][NextAdapters]_vars

\* C7 (as claimed): for a well-formed response, the adapter does not fail
\* and its output holds no record with an empty apply_url, title or company.
C7_IncompleteDropped_Claimed ==
    (adOut.source # "none" /\ adIn.status = "ok") =>
        /\ ~adOut.result.threw
        /\ \A j \in Range(adOut.result.jobs) :
              Truthy(j.apply_url) /\ Truthy(j.title) /\ Truthy(j.company)

(* ----------------------------------------------------------------------- *)
(* GET /api/fetch-jobs-extra                                               *)
(* ----------------------------------------------------------------------- *)

ExtraResponse(ok, fetched, inserted) == [ok |-> ok, fetched |-> fetched, inserted |-> inserted]

ExtraFrame == UNCHANGED <<feed, fjVars, linkedin, backfill, manual, pureVars>>

ExtraBegin ==
    /\ extra.pc = "idle"
    /\ Len(extra.responses) < MaxExtraRuns
    /\ RequestsStarted < MaxRequests
    /\ extra' = [extra EXCEPT !.pc = "fetch"]
    /\ UNCHANGED <<storeVars, lastUpsert>>
    /\ ExtraFrame

\* fetchJobicyJobs settles
ExtraFetch ==
    /\ extra.pc = "fetch"
    /\ LET a == fetchJobicyJobs(feed["jobicy"])
           filtered == Filtered(a.jobs)
       IN  extra' =
             IF a.threw
             THEN [extra EXCEPT !.pc = "idle",
                                !.responses = Append(@, ExtraResponse(FALSE, 0, 0))]
             ELSE IF filtered = << >>
             THEN [extra EXCEPT !.pc = "idle",
                                !.responses = Append(@, ExtraResponse(TRUE, 0, 0))]
             ELSE [extra EXCEPT !.pc = "translate", !.jobs = filtered]
    /\ UNCHANGED <<storeVars, lastUpsert>>
    /\ ExtraFrame

ExtraTranslate ==
    /\ extra.pc = "translate"
    /\ \E replies \in ReplySeqs(extra.jobs) :
          extra' = [extra EXCEPT !.pc = "upsert",
                                 !.rows = MapSeq(ensureJobsEnglish(extra.jobs, replies), IngestRow)]
    /\ UNCHANGED <<storeVars, lastUpsert>>
    /\ ExtraFrame

ExtraUpsert ==
    /\ extra.pc = "upsert"
    /\ \/ /\ lastUpsert' = UpsertCall("fetch-jobs-extra", "jobicy", extra.rows, TRUE, 0)
          /\ extra' = [extra EXCEPT !.pc = "idle", !.jobs = << >>, !.rows = << >>,
                                    !.responses = Append(@, ExtraResponse(FALSE, 0, 0))]
          /\ UNCHANGED storeVars
       \/ LET u == Upsert(jobs, extra.rows, nextId, now)
          IN  /\ jobs' = u.table
              /\ nextId' = u.nextId
              /\ now' = now + 1
              /\ lastUpsert' = UpsertCall("fetch-jobs-extra", "jobicy", extra.rows, FALSE,
                                          Len(u.data))
              /\ extra' = [extra EXCEPT !.pc = "idle", !.jobs = << >>, !.rows = << >>,
                                        !.responses = Append(@, ExtraResponse(TRUE,
                                                           Len(extra.jobs), Len(u.data)))]
    /\ ExtraFrame

Extra == ExtraBegin \/ ExtraFetch \/ ExtraTranslate \/ ExtraUpsert

(* ----------------------------------------------------------------------- *)
(* /api/scrape-linkedin                                                    *)
(* ----------------------------------------------------------------------- *)

\* apply_url: String(j.link ?? j.job_url ?? j.url ?? ""); the item's
\* apply_url field stands for link, its url field for job_url and url
linkedInMap(j) ==
    NormalizedJob(Coalesce(j.title, << >>), Coalesce(j.company, << >>),
                  Coalesce(j.location, S_Worldwide), ABSENT,
                  Coalesce(j.description, << >>), ABSENT,
                  Coalesce(j.apply_url, Coalesce(j.url, << >>)), ABSENT)

linkedInKeep(j) == Len(j.apply_url) > 0

\* fetchLinkedInJobs: a failing import or listing call rejects
fetchLinkedInJobs(resp) ==
    IF resp.status # "ok" THEN Thrown(resp.status)
    ELSE IF ~resp.isList THEN Returned(<< >>)
    ELSE Returned(SelectSeq(MapSeq(resp.items, linkedInMap), linkedInKeep))

LinkedInRow(j) ==
    Payload(ABSENT, Coalesce(j.title, << >>), Coalesce(j.company, << >>),
            Coalesce(j.location, S_Worldwide), ABSENT, Coalesce(j.description, << >>),
            ABSENT, j.apply_url, ABSENT, ABSENT)

ScrapeFrame == UNCHANGED <<feed, fjVars, extra, backfill, manual, pureVars>>

ScrapeBegin ==
    /\ linkedin.pc = "idle"
    /\ Len(linkedin.responses) < MaxScrapes
    /\ RequestsStarted < MaxRequests
    /\ linkedin' = [linkedin EXCEPT !.pc = "fetch"]
    /\ UNCHANGED <<storeVars, lastUpsert>>
    /\ ScrapeFrame

ScrapeFetch ==
    /\ linkedin.pc = "fetch"
    /\ LET a == fetchLinkedInJobs(feed["linkedin"])
       IN  linkedin' =
             IF a.threw
             THEN [linkedin EXCEPT !.pc = "idle",
                                   !.responses = Append(@, ExtraResponse(FALSE, 0, 0))]
             ELSE IF Len(a.jobs) = 0
             THEN [linkedin EXCEPT !.pc = "idle",
                                   !.responses = Append(@, ExtraResponse(TRUE, 0, 0))]
             ELSE [linkedin EXCEPT !.pc = "translate", !.jobs = a.jobs]
    /\ UNCHANGED <<storeVars, lastUpsert>>
    /\ ScrapeFrame

ScrapeTranslate ==
    /\ linkedin.pc = "translate"
    /\ \E replies \in ReplySeqs(linkedin.jobs) :
          linkedin' = [linkedin EXCEPT
                          !.pc = "upsert",
                          !.rows = MapSeq(ensureJobsEnglish(linkedin.jobs, replies), LinkedInRow)]
    /\ UNCHANGED <<storeVars, lastUpsert>>
    /\ ScrapeFrame

ScrapeUpsert ==
    /\ linkedin.pc = "upsert"
    /\ \/ /\ lastUpsert' = UpsertCall("scrape-linkedin", "linkedin", linkedin.rows, TRUE, 0)
          /\ linkedin' = [linkedin EXCEPT !.pc = "idle", !.jobs = << >>, !.rows = << >>,
                                          !.responses = Append(@, ExtraResponse(FALSE, 0, 0))]
          /\ UNCHANGED storeVars
       \/ LET u == Upsert(jobs, linkedin.rows, nextId, now)
          IN  /\ jobs' = u.table
              /\ nextId' = u.nextId
              /\ now' = now + 1
              /\ lastUpsert' = UpsertCall("scrape-linkedin", "linkedin", linkedin.rows, FALSE,
                                          Len(u.data))
              /\ linkedin' = [linkedin EXCEPT !.pc = "idle", !.jobs = << >>, !.rows = << >>,
                                              !.responses = Append(@, ExtraResponse(TRUE,
                                                                 Len(linkedin.jobs), Len(u.data)))]
    /\ ScrapeFrame

Scrape == ScrapeBegin \/ ScrapeFetch \/ ScrapeTranslate \/ ScrapeUpsert

(* ----------------------------------------------------------------------- *)
(* POST /api/translate-jobs                                                *)
(* ----------------------------------------------------------------------- *)

\* the rows of a table as a list, by id
RECURSIVE RowList(_)
RowList(table) ==
    IF table = {} THEN << >>
    ELSE LET first == CHOOSE r \in table : \A o \in table : r.id[1] <= o.id[1]
         IN  <<first>> \o RowList(table \ {first})

\* select("id, title, company, location, description")
Selected(r) ==
    [id |-> r.id, title |-> r.title, company |-> r.company,
     location |-> r.location, description |-> r.description]

\* the record handed to ensureJobsEnglish for a selected row
BackfillInput(j) ==
    [title |-> Coalesce(j.title, << >>), company |-> Coalesce(j.company, << >>),
     location |-> Coalesce(j.location, NULL), description |-> Coalesce(j.description, NULL)]

\* mutant: every row counts as changed
changedAlways(orig, t) == TRUE

changed(orig, t) ==
    \/ t.title # Coalesce(orig.title, << >>)
    \/ t.company # Coalesce(orig.company, << >>)
    \/ t.location # Coalesce(orig.location, NULL)
    \/ Coalesce(t.description, NULL) # Coalesce(orig.description, NULL)

\* the first index from i on whose row is to be updated
RECURSIVE NextChanged(_, _, _)
NextChanged(orig, t, i) ==
    IF i > Len(orig) THEN i
    ELSE IF changed(orig[i], t[i]) THEN i
    ELSE NextChanged(orig, t, i + 1)

\* mutant: the update also writes an empty category
UpdateTextAndCategory(table, orig, t) ==
    {IF r.id = orig.id
     THEN [r EXCEPT !.title = t.title,
                    !.company = t.company,
                    !.location = Coalesce(t.location, Coalesce(orig.location, << >>)),
                    !.description = Coalesce(t.description, orig.description),
                    !.category = NULL]
     ELSE r : r \in table}

\* update({title, company, location, description}).eq("id", orig.id)
UpdateText(table, orig, t) ==
    {IF r.id = orig.id
     THEN [r EXCEPT !.title = t.title,
                    !.company = t.company,
                    !.location = Coalesce(t.location, Coalesce(orig.location, << >>)),
                    !.description = Coalesce(t.description, orig.description)]
     ELSE r : r \in table}

BackfillResponse(success, total, updated) ==
    [success |-> success, total |-> total, updated |-> updated]

BackfillFrame == UNCHANGED <<nextId, now, feed, fjVars, lastUpsert, extra, linkedin, manual, pureVars>>

\* the loop goes on from index i; past the last row the handler responds
BackfillAfter(orig, t, i, updated) ==
    LET n == NextChanged(orig, t, i)
    IN  IF n > Len(orig)
        THEN [backfill EXCEPT !.pc = "idle", !.jobs = << >>, !.translated = << >>,
                              !.i = 1, !.updated = 0,
                              !.responses = Append(@, BackfillResponse(TRUE, Len(orig), updated))]
        ELSE [backfill EXCEPT !.pc = "update", !.jobs = orig, !.translated = t,
                              !.i = n, !.updated = updated]

BackfillContinue(orig, t, i, updated) == backfill' = BackfillAfter(orig, t, i, updated)

BackfillBegin ==
    /\ backfill.pc = "idle"
    /\ Len(backfill.responses) < MaxBackfills
    /\ RequestsStarted < MaxRequests
    /\ backfill' = [backfill EXCEPT !.pc = "select"]
    /\ UNCHANGED jobs
    /\ BackfillFrame

\* the select settles: with an error, with no rows, or with the rows
BackfillSelect ==
    /\ backfill.pc = "select"
    /\ \/ backfill' = [backfill EXCEPT !.pc = "idle",
                                       !.responses = Append(@, BackfillResponse(FALSE, 0, 0))]
       \/ /\ jobs = {}
          /\ backfill' = [backfill EXCEPT !.pc = "idle",
                                          !.responses = Append(@, BackfillResponse(TRUE, 0, 0))]
       \/ /\ jobs # {}
          /\ backfill' = [backfill EXCEPT !.pc = "translate",
                                          !.jobs = MapSeq(RowList(jobs), Selected)]
    /\ UNCHANGED jobs
    /\ BackfillFrame

\* ensureJobsEnglish settles; the loop runs up to its first update
BackfillTranslate ==
    /\ backfill.pc = "translate"
    /\ LET inputs == MapSeq(backfill.jobs, BackfillInput)
       IN  \E replies \in ReplySeqs(inputs) :
              BackfillContinue(backfill.jobs, ensureJobsEnglish(inputs, replies), 1, 0)
    /\ UNCHANGED jobs
    /\ BackfillFrame

\* the update of row i settles: with an error, or carried out
BackfillUpdate ==
    /\ backfill.pc = "update"
    /\ LET orig == backfill.jobs[backfill.i]
           t == backfill.translated[backfill.i]
       IN  \/ /\ UNCHANGED jobs
              \* failed counts the updates storage has refused so far
              /\ backfill' = [BackfillAfter(backfill.jobs, backfill.translated,
                                            backfill.i + 1, backfill.updated)
                                 EXCEPT !.failed = @ + 1]
           \/ /\ jobs' = UpdateText(jobs, orig, t)
              /\ BackfillContinue(backfill.jobs, backfill.translated, backfill.i + 1,
                                  backfill.updated + 1)
    /\ BackfillFrame

Backfill == BackfillBegin \/ BackfillSelect \/ BackfillTranslate \/ BackfillUpdate

(* ----------------------------------------------------------------------- *)
(* POST /api/add-job and the admin's delete                                *)
(* ----------------------------------------------------------------------- *)

\* request bodies: a listing the feeds also carry, a new listing, and a
\* body without a title; each supplies its own created_at
AddBodies ==
    {Payload(ABSENT, S_ab, S_c, ABSENT, ABSENT, ABSENT, ABSENT, S_u, ABSENT, <<0>>),
     Payload(ABSENT, S_cjk, S_c, S_Remote, S_k, S_xy, ABSENT, S_w, S_l, <<0>>),
     Payload(ABSENT, ABSENT, S_c, ABSENT, ABSENT, ABSENT, ABSENT, S_v, ABSENT, <<0>>),
     \* an English listing whose description is longer than one request takes
     Payload(ABSENT, S_ab, S_c, S_Remote, ABSENT, Repeat(97, MAX_CHARS_PER_REQUEST + 1),
             ABSENT, S_d, ABSENT, <<0>>)}

\* mutant: the created_at of the request body is stored
AddJobKeepingCreatedAt ==
    /\ Len(manual.adds) < MaxAdds
    /\ RequestsStarted < MaxRequests
    /\ \E body \in AddBodies, dbFails \in BOOLEAN :
          LET row == WithDefaults(body, nextId, now)
              error == \/ dbFails
                       \/ NotNullViolation(row)
                       \/ PrimaryKeyViolation(jobs, row)
                       \/ UniqueViolation(jobs, row)
          IN  IF error
              THEN /\ manual' = [manual EXCEPT !.adds = Append(@, [body |-> body, status |-> 400,
                                                                    at |-> now])]
                   /\ UNCHANGED storeVars
              ELSE /\ manual' = [manual EXCEPT !.adds = Append(@, [body |-> body, status |-> 200,
                                                                    at |-> now])]
                   /\ jobs' = jobs \cup {row}
                   /\ nextId' = nextId + 1
                   /\ now' = now + 1
    /\ UNCHANGED <<feed, fjVars, lastUpsert, extra, linkedin, backfill, pureVars>>

\* insert([{...body, created_at: new Date()}])
AddJob ==
    /\ Len(manual.adds) < MaxAdds
    /\ RequestsStarted < MaxRequests
    /\ \E body \in AddBodies, dbFails \in BOOLEAN :
          LET row == WithDefaults([body EXCEPT !.created_at = <<now>>], nextId, now)
              error == \/ dbFails
                       \/ NotNullViolation(row)
                       \/ PrimaryKeyViolation(jobs, row)
                       \/ UniqueViolation(jobs, row)
          IN  IF error
              THEN /\ manual' = [manual EXCEPT !.adds = Append(@, [body |-> body, status |-> 400,
                                                                    at |-> now])]
                   /\ UNCHANGED storeVars
              ELSE /\ manual' = [manual EXCEPT !.adds = Append(@, [body |-> body, status |-> 200,
                                                                    at |-> now])]
                   /\ jobs' = jobs \cup {row}
                   /\ nextId' = nextId + 1
                   /\ now' = now + 1
    /\ UNCHANGED <<feed, fjVars, lastUpsert, extra, linkedin, backfill, pureVars>>

\* handleDelete(id)
DeleteJob ==
    /\ manual.deletes < MaxDeletes
    /\ RequestsStarted < MaxRequests
    /\ \E r \in jobs : jobs' = {x \in jobs : x.id # r.id}
    /\ manual' = [manual EXCEPT !.deletes = @ + 1]
    /\ UNCHANGED <<nextId, now, feed, fjVars, lastUpsert, extra, linkedin, backfill, pureVars>>

(* ----------------------------------------------------------------------- *)
(* The backfill against stored tables                                      *)
(* ----------------------------------------------------------------------- *)

\* a stored row with the given id and text
StoredRow(n, title, location, description) ==
    JobRow(<<n>>, title, S_c, location, NULL, description, NULL, <<117, 48 + n>>, NULL, <<n>>)

\* rows as the table can hold them: an untrimmed title; a title that needs
\* a request next to a blank location and a blank description; a
\* description longer than one request takes; a location that is null, as a
\* table created before the migrations can hold it; a row that the backfill
\* leaves as it is
BackfillRows ==
    {StoredRow(1, <<32, 97, 98, 32>>, S_Remote, NULL),
     StoredRow(2, S_cjk, <<32>>, <<32>>),
     StoredRow(3, S_ab, S_Remote, Repeat(97, MAX_CHARS_PER_REQUEST + 1)),
     StoredRow(4, S_ab, NULL, S_d),
     StoredRow(5, S_ab, << >>, NULL)}

BackfillTables ==
    {{r} : r \in BackfillRows} \cup {{r \in BackfillRows : r.id[1] <= 3}, BackfillRows}

InitBackfill ==
    /\ jobs \in BackfillTables
    /\ nextId = 6
    /\ now = 6
    /\ lastUpsert = [NoCall EXCEPT !.at = 0]
    /\ InitFetchJobs
    /\ InitOthers
    /\ InitPure
    /\ feed = [s \in AllSources |-> Response("ok", TRUE, << >>)]

NextBackfill ==
    \/ BackfillBegin \/ BackfillSelect \/ BackfillTranslate \/ BackfillUpdate
    \/ DeleteJob

SpecBackfill == InitBackfill /\ [][NextBackfill]_vars

\* the step in which an update of the backfill settles
IsBackfillUpdateStep == backfill.pc = "update" /\ backfill' # backfill

\* the count of updated rows after a step of the backfill
UpdatedAfter ==
    IF Len(backfill'.responses) > Len(backfill.responses)
    THEN backfill'.responses[Len(backfill'.responses)].updated
    ELSE backfill'.updated

\* C28 (as claimed): the backfill counts a row as updated exactly when its
\* update changed the stored row, also when rows are deleted between the
\* backfill's read and its updates, and no update re-creates a row.
C28_UpdatedCountsChanges_Claimed ==
    [][IsBackfillUpdateStep =>
          /\ (UpdatedAfter = backfill.updated + 1) <=> (jobs' # jobs)
          /\ UpdatedAfter \in {backfill.updated, backfill.updated + 1}
          /\ {r.id : r \in jobs'} = {r.id : r \in jobs}]_vars

\* the records ensureJobsEnglish returns when no request changes any text
Unaltered(inputs) ==
    ensureJobsEnglish(inputs, [i \in DOMAIN inputs |-> [f \in TextFields |-> ReplyThrow]])

\* the translation of the run that has just been awaited changed some text
Altered ==
    /\ backfill'.pc = "update"
    /\ backfill'.translated # Unaltered(MapSeq(backfill.jobs, BackfillInput))

\* the step in which the second run's translation settles
SecondRunTranslated ==
    Len(backfill.responses) = 1 /\ backfill.pc = "translate" /\ backfill' # backfill

DEFAULT_LIMIT == 12

\* largest page index a request asks for
MaxPage == 2

\* a JavaScript number is a one-element sequence, NaN the empty sequence
Num(n) == <<n>>
NaN == << >>

\* Number(x) || d
NumberOr(x, d) == IF x = NaN \/ x = Num(0) THEN d ELSE x[1]

Min(a, b) == IF a <= b THEN a ELSE b
Max(a, b) == IF a >= b THEN a ELSE b

\* Math.ceil(total / limit) || 1, for total >= 0 and limit # 0; a quotient
\* in (-1, 0] rounds to -0 or 0, which || replaces by 1
CeilOr1(total, limit) ==
    LET c == IF limit > 0 THEN (total + limit - 1) \div limit
             ELSE 0 - (total \div (0 - limit))
    IN  IF c = 0 THEN 1 ELSE c

\* the filters GET builds from the query string; page and limit hold
\* Number(searchParams.get(..)), NULL is a parameter that is not given
RouteFilters(params) ==
    [search |-> Coalesce(params.search, ABSENT),
     location |-> Coalesce(params.location, ABSENT),
     category |-> Coalesce(params.category, ABSENT),
     experience |-> Coalesce(params.experience, ABSENT),
     remote |-> params.remote = "1",
     sort |-> IF params.sort = "" THEN "newest" ELSE params.sort,
     page |-> Num(NumberOr(params.page, 0)),
     limit |-> Num(Min(NumberOr(params.limit, 12), 50))]

\* filters.x?.trim() ? filters.x.trim() : no filter
Term(v) == IF ~IsNullish(v) /\ Trim(v) # << >> THEN Trim(v) ELSE ABSENT

\* mutant: the page index is taken as given
buildJobsQueryAnyPage(filters, skip) ==
    LET limit == Min(NumberOr(filters.limit, DEFAULT_LIMIT), 50)
        page == NumberOr(filters.page, 0)
        from == page * limit
    IN  [query |-> [ascending |-> filters.sort = "oldest",
                    search |-> Term(filters.search),
                    location |-> Term(filters.location),
                    category |-> IF skip THEN ABSENT ELSE Term(filters.category),
                    experience |-> IF skip THEN ABSENT ELSE Term(filters.experience),
                    remote |-> filters.remote],
         from |-> from, to |-> from + limit - 1, limit |-> limit, page |-> page]

\* buildJobsQuery(supabase, filters, {skipOptionalColumns: skip})
buildJobsQuery(filters, skip) ==
    LET limit == Min(NumberOr(filters.limit, DEFAULT_LIMIT), 50)
        page == Max(0, NumberOr(filters.page, 0))
        from == page * limit
    IN  [query |-> [ascending |-> filters.sort = "oldest",
                    search |-> Term(filters.search),
                    location |-> Term(filters.location),
                    category |-> IF skip THEN ABSENT ELSE Term(filters.category),
                    experience |-> IF skip THEN ABSENT ELSE Term(filters.experience),
                    remote |-> filters.remote],
         from |-> from, to |-> from + limit - 1, limit |-> limit, page |-> page]

\* lower case of an ASCII letter
Lower(c) == IF c >= 65 /\ c <= 90 THEN c + 32 ELSE c

\* text ILIKE pattern: % stands for any text, _ for any one character
RECURSIVE Like(_, _)
Like(pattern, text) ==
    IF pattern = << >> THEN text = << >>
    ELSE IF Head(pattern) = 37
         THEN Like(Tail(pattern), text) \/ (text # << >> /\ Like(pattern, Tail(text)))
    ELSE IF text = << >> THEN FALSE
    ELSE /\ (Head(pattern) = 95 \/ Lower(Head(pattern)) = Lower(Head(text)))
         /\ Like(Tail(pattern), Tail(text))

\* .ilike(column, `%${term}%`) on a column value
ILike(value, term) == value # NULL /\ Like(<<37>> \o term \o <<37>>, value)

S_remote == <<114, 101, 109, 111, 116, 101>>

\* the WHERE clause the filters of a query add up to
Matches(row, q) ==
    /\ q.search # ABSENT => (ILike(row.title, q.search) \/ ILike(row.company, q.search))
    /\ q.location # ABSENT => ILike(row.location, q.location)
    /\ q.category # ABSENT => ILike(row.category, q.category)
    /\ q.experience # ABSENT => ILike(row.experience_level, q.experience)
    /\ q.remote => ILike(row.location, S_remote)

\* ORDER BY created_at: every order of the rows the sort allows
RECURSIVE Orderings(_, _)
Orderings(rs, ascending) ==
    IF rs = {} THEN {<< >>}
    ELSE LET first == {r \in rs : \A o \in rs :
                          IF ascending THEN r.created_at[1] <= o.created_at[1]
                          ELSE r.created_at[1] >= o.created_at[1]}
         IN  UNION {{<<r>> \o rest : rest \in Orderings(rs \ {r}, ascending)} : r \in first}

\* .range(from, to) of a list: the rows at offsets from .. to
RangeOf(list, from, to) ==
    IF from + 1 > Len(list) THEN << >>
    ELSE SubSeq(list, from + 1, Min(to + 1, Len(list)))

Failure(error) == [error |-> error, data |-> << >>, count |-> 0]
Answer(data, count) == [error |-> "", data |-> data, count |-> count]

\* What storage can answer to a query.  A query that names a column the
\* table does not have fails with code 42703 (or with another code and
\* 42703 in the message); any query can fail for another reason; a range
\* of negative length is either refused or answered with no rows and the
\* count.
QueryOutcomes(table, optionalColumns, b) ==
    LET matching == {r \in table : Matches(r, b.query)}
    IN  {Failure("other")}
          \cup IF ~optionalColumns /\ (b.query.category # ABSENT \/ b.query.experience # ABSENT)
               THEN {Failure("42703"), Failure("message 42703")}
               ELSE IF b.to < b.from - 1
               THEN {Answer(<< >>, Cardinality(matching))}
               ELSE {Answer(RangeOf(o, b.from, b.to), Cardinality(matching)) :
                        o \in Orderings(matching, b.query.ascending)}

\* mutant: every error counts as a missing column
isUndefinedColumnOrAny(error) == TRUE

\* error?.code === "42703" || String(error?.message ?? "").includes("42703")
isUndefinedColumn(error) == error \in {"42703", "message 42703"}

Issued(b, outcome) == [query |-> b.query, from |-> b.from, to |-> b.to, error |-> outcome.error]

NoBody ==
    [jobs |-> << >>, total |-> 0, page |-> 0, totalPages |-> 0, limit |-> 0, error |-> ""]

\* the result getJobs returns
GetJobsResult(data, count, page, limit) ==
    [jobs |-> data, total |-> count, page |-> page,
     totalPages |-> CeilOr1(count, limit), limit |-> limit, error |-> ""]

QueryFrame ==
    UNCHANGED <<storeVars, feed, fjVars, lastUpsert, otherVars, translateVars,
                adapterVars, enOut, ej>>

\* the request arrives; getJobs builds the query and awaits it
JobsGetBegin ==
    /\ gj.pc = "idle"
    /\ gj' = [gj EXCEPT !.pc = "query"]
    /\ QueryFrame

\* the first query settles: the result is returned, the fallback query is
\* awaited, or the error is thrown and answered with status 500
JobsGetQuery ==
    /\ gj.pc = "query"
    /\ LET filters == RouteFilters(gj.params)
           b == buildJobsQuery(filters, FALSE)
       IN  \E outcome \in QueryOutcomes(jobs, gj.optionalColumns, b) :
              gj' = IF outcome.error # "" /\ isUndefinedColumn(outcome.error)
                    THEN [gj EXCEPT !.pc = "fallback",
                                    !.queries = <<Issued(b, outcome)>>]
                    ELSE IF outcome.error # ""
                    THEN [gj EXCEPT !.pc = "done", !.status = 500,
                                    !.queries = <<Issued(b, outcome)>>,
                                    !.body = [NoBody EXCEPT !.error = outcome.error]]
                    ELSE [gj EXCEPT !.pc = "done", !.status = 200,
                                    !.queries = <<Issued(b, outcome)>>,
                                    !.body = GetJobsResult(outcome.data, outcome.count,
                                                           b.page, b.limit)]
    /\ QueryFrame

\* the fallback query settles
JobsGetFallback ==
    /\ gj.pc = "fallback"
    /\ LET filters == RouteFilters(gj.params)
           b == buildJobsQuery(filters, FALSE)
           fallback == buildJobsQuery(filters, TRUE)
       IN  \E outcome \in QueryOutcomes(jobs, gj.optionalColumns, fallback) :
              gj' = IF outcome.error # ""
                    THEN [gj EXCEPT !.pc = "done", !.status = 500,
                                    !.queries = Append(gj.queries, Issued(fallback, outcome)),
                                    !.body = [NoBody EXCEPT !.error = outcome.error]]
                    ELSE [gj EXCEPT !.pc = "done", !.status = 200,
                                    !.queries = Append(gj.queries, Issued(fallback, outcome)),
                                    !.body = GetJobsResult(outcome.data, outcome.count,
                                                           fallback.page, b.limit)]
    /\ QueryFrame

S_B == <<66>>
S_REMOTE == <<82, 69, 77, 79, 84, 69>>

\* three rows, two of them inserted at the same time
SmallTable ==
    {JobRow(<<1>>, S_ab, S_c, S_Remote, S_k, NULL, NULL, S_u, S_l, <<1>>),
     JobRow(<<2>>, S_xy, S_c, S_REMOTE, NULL, NULL, NULL, S_v, NULL, <<2>>),
     JobRow(<<3>>, S_cjk, S_c, << >>, S_k, NULL, NULL, S_w, S_l, <<2>>)}

\* 25 remote listings inserted one after another
BigTable ==
    {JobRow(<<i>>, S_ab, S_c, S_Remote, NULL, NULL, NULL, <<117, i>>, NULL, <<i>>) : i \in 1..25}

QueryTables == {{}, SmallTable, BigTable}

\* query strings: a search term in upper case and one that is a pattern
\* character, a blank and a padded location, numbers below, inside and
\* above the ranges the handler expects
QueryParams ==
    [search : {NULL, S_B, <<95>>},
     location : {NULL, <<32>>, <<32, 109, 111, 116, 32>>},
     category : {NULL, S_k},
     experience : {NULL, S_l},
     remote : {"", "1"},
     sort : {"", "oldest"},
     page : {NaN} \cup {Num(n) : n \in (-1)..MaxPage},
     limit : {Num(0), Num(-12), Num(2), Num(12), Num(60)}]

InitQuery ==
    /\ jobs \in QueryTables
    /\ nextId = 26
    /\ now = 26
    /\ lastUpsert = [NoCall EXCEPT !.at = 0]
    /\ InitFetchJobs
    /\ InitOthers
    /\ feed = [s \in AllSources |-> Response("ok", TRUE, << >>)]
    /\ tIn = << >>
    /\ IdleTranslate
    /\ IdleAdapters
    /\ IdleBatch
    /\ \E params \in QueryParams, columns \in BOOLEAN :
          gj = [pc |-> "idle", params |-> params, optionalColumns |-> columns,
                queries |-> << >>, status |-> 0, body |-> NoBody]

NextQuery == JobsGetBegin \/ JobsGetQuery \/ JobsGetFallback

SpecQuery == InitQuery /\ [][NextQuery]_vars

(* ----------------------------------------------------------------------- *)
(* Properties of the query layer                                           *)
(* ----------------------------------------------------------------------- *)

\* the least integer that is not below total / limit
CeilingOfQuotient(total, limit) ==
    CHOOSE n \in (0 - total - 1)..(total + 1) :
        IF limit > 0
        THEN n * limit >= total /\ (n - 1) * limit < total
        ELSE n * limit <= total /\ (n - 1) * limit > total

Answered == gj.pc = "done" /\ gj.status = 200

\* C14 (as claimed): every result of getJobs, whatever page and limit the
\* query string carried, has totalPages = max(1, ceil(total / limit)), which
\* is never below 1.
C14_TotalPages_Claimed ==
    Answered =>
        /\ gj.body.totalPages >= 1
        /\ gj.body.totalPages = Max(1, CeilingOfQuotient(gj.body.total, gj.body.limit))

\* text contains term, letter case aside
Contains(text, term) ==
    \E i \in 0..(Len(text) - Len(term)) :
        \A k \in 1..Len(term) : Lower(text[i + k]) = Lower(term[k])

\* a filter value that is given and not blank
Given(v) == v # NULL /\ Trim(v) # << >>

ColumnContains(value, v) == value # NULL /\ Contains(value, Trim(v))

\* the rows the filters of the request select by substring
ReferenceRows ==
    {r \in jobs :
        /\ Given(gj.params.search) =>
              (ColumnContains(r.title, gj.params.search)
                 \/ ColumnContains(r.company, gj.params.search))
        /\ Given(gj.params.location) => ColumnContains(r.location, gj.params.location)
        /\ Given(gj.params.category) => ColumnContains(r.category, gj.params.category)
        /\ Given(gj.params.experience) =>
              ColumnContains(r.experience_level, gj.params.experience)
        /\ gj.params.remote = "1" => ColumnContains(r.location, S_remote)}

\* C15 (as claimed): on a table with all columns the result of getJobs is
\* the reference result: the rows that contain every given, non-blank
\* filter value as a substring (and "remote" when remote is set), ordered by
\* created_at as the sort asks, cut to the page range, with total the
\* number of all such rows.
C15_ReferenceResult_Claimed ==
    (Answered /\ gj.optionalColumns) =>
        /\ gj.body.total = Cardinality(ReferenceRows)
        /\ \E o \in Orderings(ReferenceRows, gj.params.sort = "oldest") :
              gj.body.jobs = RangeOf(o, gj.body.page * gj.body.limit,
                                     gj.body.page * gj.body.limit + gj.body.limit - 1)

\* the undefined-column condition of a query error
MissingColumn(error) == error = "42703" \/ error = "message 42703"

\* C16: a first query that fails with the undefined-column condition is
\* followed by exactly one retry with the same search, location and remote
\* filters, sort order and page range and without the category and
\* experience filters; any other first-query error is followed by no
\* retry; the error of the last query issued, if any, is answered with
\* status 500; a request issues at most two queries.
C16_SingleFallback ==
    /\ Len(gj.queries) <= 2
    /\ gj.pc = "fallback" => (Len(gj.queries) = 1 /\ MissingColumn(gj.queries[1].error))
    /\ gj.pc = "done" =>
          LET qs == gj.queries
              last == qs[Len(qs)]
          IN  /\ Len(qs) >= 1
              /\ Len(qs) = 2 <=> MissingColumn(qs[1].error)
              /\ Len(qs) = 2 =>
                    /\ qs[2].query = [qs[1].query EXCEPT !.category = ABSENT,
                                                         !.experience = ABSENT]
                    /\ qs[2].from = qs[1].from
                    /\ qs[2].to = qs[1].to
              /\ last.error # "" => (gj.status = 500 /\ gj.body.error = last.error)
              /\ last.error = "" => gj.status = 200

\* a request with search, location, remote and category filters was
\* answered from the retry
C16_Witness ==
    /\ Answered
    /\ Len(gj.queries) = 2
    /\ gj.queries[1].query.category # ABSENT
    /\ gj.queries[2].query.search # ABSENT
    /\ gj.queries[2].query.location # ABSENT
    /\ gj.queries[2].query.remote
    /\ gj.queries[2].query.ascending
    /\ gj.queries[2].from > 0
    /\ gj.body.jobs # << >>

\* C24: every range GET /api/jobs requests from storage is
\* [page * limit, page * limit + limit - 1] for a page size of at most 50
\* and a page index that is not negative, and a result that is returned
\* reports that page index and that page size.
C24_PageWindow ==
    /\ \A k \in DOMAIN gj.queries :
          LET q == gj.queries[k]
              limit == q.to - q.from + 1
          IN  /\ limit <= 50
              /\ \E page \in 0..(MaxPage + 1) : q.from = page * limit
    /\ Answered =>
          /\ gj.body.limit <= 50
          /\ gj.body.page >= 0
          /\ \A k \in DOMAIN gj.queries :
                /\ gj.queries[k].from = gj.body.page * gj.body.limit
                /\ gj.queries[k].to = gj.body.page * gj.body.limit + gj.body.limit - 1

\* a request for page -1 with 60 rows a page was answered with page 0 and
\* 50 rows a page after the fallback query
C24_Witness ==
    /\ Answered
    /\ gj.params.page = Num(-1)
    /\ gj.params.limit = Num(60)
    /\ gj.body.page = 0
    /\ gj.body.limit = 50
    /\ Len(gj.queries) = 2

(* ----------------------------------------------------------------------- *)
(* All handlers against one table                                          *)
(* ----------------------------------------------------------------------- *)

\* the sources carry overlapping listings with different content; one
\* primary source fails
Init ==
    /\ InitStore
    /\ InitFetchJobs
    /\ InitOthers
    /\ InitPure
    /\ feed = [s \in AllSources |->
                 CASE s = "remotive" -> Response("ok", TRUE, <<ItemA, ItemB>>)
                   [] s = "remoteok" -> Response("ok", TRUE, <<ItemA2, ItemBlank>>)
                   [] s = "arbeitnow" -> Response("timeout", FALSE, << >>)
                   [] s = "jobicy" -> Response("ok", TRUE, <<ItemB, ItemA>>)
                   [] s = "linkedin" -> Response("ok", TRUE, <<ItemA2, ItemNoTitle, ItemBare>>)]

Next ==
    \/ FetchJobsBegin \/ FetchJobsFetch \/ FetchJobsTranslate \/ FetchJobsUpsert
    \/ ExtraBegin \/ ExtraFetch \/ ExtraTranslate \/ ExtraUpsert
    \/ ScrapeBegin \/ ScrapeFetch \/ ScrapeTranslate \/ ScrapeUpsert
    \/ BackfillBegin \/ BackfillSelect \/ BackfillTranslate \/ BackfillUpdate
    \/ AddJob
    \/ DeleteJob

Spec == Init /\ [][Next]_vars

(* ----------------------------------------------------------------------- *)
(* Properties of the table under all handlers                              *)
(* ----------------------------------------------------------------------- *)

\* C1: whatever the interleaving of ingestion runs, manual inserts,
\* backfills and deletes, no two rows of the table have the same apply_url.
C1_NoDuplicateApplyUrl ==
    \A r1 \in jobs, r2 \in jobs : r1 # r2 => r1.apply_url # r2.apply_url

\* a stored listing was offered again by a later upsert and by a manual
\* insert
C1_Witness ==
    /\ \E r \in jobs :
          /\ r.apply_url = S_u
          /\ r.created_at[1] < lastUpsert.at
    /\ ~lastUpsert.failed
    /\ \E i \in DOMAIN lastUpsert.rows : lastUpsert.rows[i].apply_url = S_u
    /\ \E a \in DOMAIN manual.adds :
          manual.adds[a].body.apply_url = S_u /\ manual.adds[a].status = 400

\* the step in which the awaited upsert of any ingestion path settles
IsUpsertStep ==
    \/ fjPc = "upsert" /\ fjPc' # "upsert"
    \/ extra.pc = "upsert" /\ extra'.pc # "upsert"
    \/ linkedin.pc = "upsert" /\ linkedin'.pc # "upsert"

\* C2: an upsert of any ingestion path leaves every row that already
\* exists, in particular a row whose apply_url the upsert carries,
\* unchanged in all its columns.
C2_ExistingRowUnchanged == [][IsUpsertStep => \A r \in jobs : r \in jobs']_vars

\* the latest upsert succeeded and carried an apply_url that was stored
\* before, with a different title
C2_Witness ==
    /\ ~lastUpsert.failed
    /\ lastUpsert.path = "scrape-linkedin"
    /\ \E i \in DOMAIN lastUpsert.rows :
          \E r \in jobs :
              /\ r.apply_url = lastUpsert.rows[i].apply_url
              /\ r.created_at[1] < lastUpsert.at
              /\ r.title # lastUpsert.rows[i].title

\* a stored text that needs no translation: null, blank or likely English
IsEnglishText(v) == IsNullish(v) \/ Trim(v) = << >> \/ isLikelyEnglish(v)

AllEnglish(row) ==
    /\ IsEnglishText(row.title)
    /\ IsEnglishText(row.company)
    /\ IsEnglishText(row.location)
    /\ IsEnglishText(row.description)

\* C17 (as claimed): the rows a backfill writes and counts are rows in
\* which translation changed at least one of title, company, location,
\* description, and a row whose four text fields are all already English is
\* neither written nor counted.
C17_BackfillOnlyNonEnglish_Claimed ==
    backfill.pc = "update" =>
        LET orig == backfill.jobs[backfill.i]
            t == backfill.translated[backfill.i]
        IN  /\ \/ t.title # orig.title
               \/ t.company # orig.company
               \/ t.location # orig.location
               \/ t.description # orig.description
            /\ ~AllEnglish(orig)

\* a step of the translation backfill
IsBackfillStep == backfill' # backfill

\* C18: a step that is not a backfill step leaves every row that stays in
\* the table as it is; a backfill step neither inserts nor deletes rows and
\* leaves id, apply_url, category, publication_date, experience_level and
\* created_at of every row as they are.
C18_RowsImmutable ==
    [][/\ ~IsBackfillStep =>
             \A r \in jobs : \A n \in jobs' : n.id = r.id => n = r
       /\ IsBackfillStep =>
             /\ {n.id : n \in jobs'} = {r.id : r \in jobs}
             /\ Cardinality(jobs') = Cardinality(jobs)
             /\ \A r \in jobs : \A n \in jobs' :
                    n.id = r.id =>
                        /\ n.apply_url = r.apply_url
                        /\ n.category = r.category
                        /\ n.publication_date = r.publication_date
                        /\ n.experience_level = r.experience_level
                        /\ n.created_at = r.created_at]_vars

\* the backfill rewrote the title of the manually added listing and kept
\* its other columns
C18_Witness ==
    /\ Len(backfill.responses) >= 1
    /\ backfill.responses[1].updated = 1
    /\ \E r \in jobs :
          /\ r.title = Trim(EnglishText)
          /\ r.apply_url = S_w
          /\ r.category = S_k
          /\ r.experience_level = S_l

\* the upserts of the ingestion handlers
IngestionPaths == {"fetch-jobs", "fetch-jobs-extra", "scrape-linkedin"}

\* C22 (as claimed): no row that an ingestion handler hands to its upsert
\* has an empty or whitespace-only apply_url.
C22_NoBlankApplyUrl_Claimed ==
    lastUpsert.path \in IngestionPaths =>
        \A i \in DOMAIN lastUpsert.rows : NonBlank(lastUpsert.rows[i].apply_url)

\* C23 (as claimed): every row that an ingestion handler hands to its
\* upsert has a non-empty location.
C23_LocationNonEmpty_Claimed ==
    lastUpsert.path \in IngestionPaths =>
        \A i \in DOMAIN lastUpsert.rows :
            /\ ~IsNullish(lastUpsert.rows[i].location)
            /\ lastUpsert.rows[i].location # << >>

\* the step in which POST /api/add-job is served
IsAddJobStep == Len(manual'.adds) = Len(manual.adds) + 1

\* C27: a POST /api/add-job whose apply_url is that of a stored row is
\* answered with an error and leaves the table as it was, as does every
\* other rejected insert; an insert that succeeds adds exactly one row, with
\* the body's apply_url and the server's time of insertion as created_at.
C27_ManualInsert ==
    [][IsAddJobStep =>
          LET a == manual'.adds[Len(manual'.adds)]
          IN  /\ (\E r \in jobs : r.apply_url = a.body.apply_url) => a.status # 200
              /\ a.status # 200 => jobs' = jobs
              /\ a.status = 200 =>
                    \E row \in jobs' :
                        /\ row \notin jobs
                        /\ jobs' = jobs \cup {row}
                        /\ row.apply_url = a.body.apply_url
                        /\ row.created_at = <<now>>]_vars

\* an insert was stored with the server's time instead of the created_at of
\* its body, and a second insert with the same apply_url was rejected
C27_Witness ==
    /\ Len(manual.adds) = 2
    /\ manual.adds[1].status = 200
    /\ manual.adds[2].status = 400
    /\ manual.adds[2].body.apply_url = manual.adds[1].body.apply_url
    /\ \E r \in jobs :
          /\ jobs = {r}
          /\ r.apply_url = manual.adds[1].body.apply_url
          /\ r.created_at = <<manual.adds[1].at>>
          /\ manual.adds[1].body.created_at # r.created_at

====
